---------------------------- MODULE Spec2Model ----------------------------
(***************************************************************************)
(* ICDD_Creator: the relationship-resolution and link-construction engine. *)
(*                                                                         *)
(* Texts are sequences of one-character strings, so that trimming, case    *)
(* folding, separator removal and substring search are computed and not    *)
(* assumed.  An RDF term is a record [ns, name, n]: ns is the namespace    *)
(* ("els", "ls", "ct", "rdfs", "base" for URIs minted by generate_uri,     *)
(* "_" for a blank node, "lit" for a literal), name the local name or the  *)
(* literal's text, n the number that stands for the uuid4 of a minted URI. *)
(* A graph is a set of triples <<subject, predicate, object>>.             *)
(***************************************************************************)
EXTENDS Integers, Sequences, FiniteSets, TLC

VARIABLES
  pc,               \* position of the running entry point
  entry,            \* which entry point runs
  g_index,          \* Index.rdf: [docs: the Document records in store order,
                    \*             linksets: the ct:containsLinkset back-references]
  onto,             \* the ExtendedLinkset.rdf resource of the container
  name_to_uri,      \* result of build_iso_semantics_index: key -> concept
  g_els,            \* result of build_iso_semantics_index: the subClassOf triples
  ifc_uris,         \* the IFC documents found in Index.rdf, in store order
  ifc_objects_dict, \* GlobalIds read from the IFC files (complete_build only)
  g_links,          \* the relationship graph under construction
  next_id,          \* number of URIs minted so far (uuid4 never repeats)
  csv,              \* [files: CSV files still to open, rows: rows read so far,
                    \*  guid_col: whether the open file has a GUID column] and
                    \* the history of the run: files that passed (accepted) and
                    \* failed (rejected) the column check, rows read whose two
                    \* paths resolve (resolved), and those of them that carry an
                    \* identifier while an IFC document is registered (qualifying)
  log,              \* [warnings, errors, shown]: logger.warning / logger.error /
                    \* messagebox.showerror calls so far
  written,          \* the relationship graphs serialized so far
  made,             \* the create_directed_link calls so far, in order
  norm_out,         \* last call of normalize_csv_type_to_iso and its result
  sub,              \* the running _is_subclass_of call
  lookups,          \* the find_document_uri calls made on their own, in order
  fs,               \* the filesystem: [container_dir: whether the container directory
                    \*  with its Index.rdf exists, payload: the entries below
                    \*  "Payload documents", listing: the order in which the system
                    \*  lists directory names, icdd: the archives written]
  walks,            \* the add_documents_flat walks so far: the records of each, in
                    \* the order in which the walk adds them
  collapsed         \* the remove_repeated_segments calls made on their own, in order

vars == << pc, entry, g_index, onto, name_to_uri, g_els, ifc_uris,
           ifc_objects_dict, g_links, next_id, csv, log, written, made,
           norm_out, sub, lookups, fs, walks, collapsed >>

-----------------------------------------------------------------------------
(* Bounds of the model *)

MaxRows == 2        \* rows read in one import
MaxFiles == 2       \* CSV files found by build_icdd_auto_csv
MaxEdges == 3       \* rdfs:subClassOf triples in the ontology resource
MaxCalls == 2       \* direct calls of create_directed_link on one graph
MaxDocs == 3        \* Documents in the index that find_document_uri searches
MaxLookups == 2     \* find_document_uri calls on one index
MaxEntries == 3     \* folders and files below the payload directory
MaxWalks == 2       \* ingestion operations on one container
MaxSegments == 4    \* segments of a path given to remove_repeated_segments
MaxBuildEntries == 1    \* entries that the CDE import of a build copies

-----------------------------------------------------------------------------
(* Python str operations *)

Uppers == << "A","B","C","D","E","F","G","H","I","J","K","L","M",
             "N","O","P","Q","R","S","T","U","V","W","X","Y","Z" >>
Lowers == << "a","b","c","d","e","f","g","h","i","j","k","l","m",
             "n","o","p","q","r","s","t","u","v","w","x","y","z" >>

Whitespace == { " ", "\t", "\n", "\r" }

lower_char(c) ==
  IF \E i \in 1..Len(Uppers) : Uppers[i] = c
  THEN Lowers[CHOOSE i \in 1..Len(Uppers) : Uppers[i] = c]
  ELSE c

lower(s) == [i \in 1..Len(s) |-> lower_char(s[i])]

RECURSIVE lstrip(_, _)
lstrip(s, chars) ==
  IF s # <<>> /\ Head(s) \in chars THEN lstrip(Tail(s), chars) ELSE s

RECURSIVE rstrip(_, _)
rstrip(s, chars) ==
  IF s # <<>> /\ s[Len(s)] \in chars
  THEN rstrip(SubSeq(s, 1, Len(s) - 1), chars)
  ELSE s

strip(s) == rstrip(lstrip(s, Whitespace), Whitespace)

\* s.replace(a, b) for a one-character a and a text b
RECURSIVE replace(_, _, _)
replace(s, a, b) ==
  IF s = <<>> THEN <<>>
  ELSE (IF Head(s) = a THEN b ELSE << Head(s) >>) \o replace(Tail(s), a, b)

\* sub in s
contains(s, part) ==
  \E i \in 0..(Len(s) - Len(part)) : SubSeq(s, i + 1, i + Len(part)) = part

\* Python's None where a text is expected (a cell the csv reader left unfilled)
None == << "<None>" >>

\* x or ""
or_empty(x) == IF x = None THEN <<>> ELSE x

-----------------------------------------------------------------------------
(* RDF terms *)

Term(ns, name, n) == [ns |-> ns, name |-> name, n |-> n]

NoneURI == Term("", <<>>, 0)

isURIRef(t) == t.ns \notin { "_", "lit", "" }

Literal(text) == Term("lit", text, 0)

LS(name) == Term("ls", << name >>, 0)
CT(name) == Term("ct", << name >>, 0)
ELS(name) == Term("els", name, 0)

objects(g, s, p) == { t[3] : t \in { x \in g : x[1] = s /\ x[2] = p } }
subjects(g, p, o) == { t[1] : t \in { x \in g : x[2] = p /\ x[3] = o } }

\* the orders in which a store may hand out the members of S
Orders(S) ==
  { f \in [1..Cardinality(S) -> S] : \A a \in S : \E i \in DOMAIN f : f[i] = a }

\* variant: the URI is made of the prefix alone
generate_uri_by_prefix(prefix, n) == Term("base", << prefix >>, 0)

generate_uri(prefix, n) == Term("base", << prefix >>, n)

-----------------------------------------------------------------------------
(* The ontology resource and the Ontology Semantic Index *)

RDF_type == "rdf:type"
RDFS_label == "rdfs:label"
RDFS_subClassOf == "rdfs:subClassOf"
RDFS_comment == "rdfs:comment"
OWL_Class == Term("owl", << "Class" >>, 0)

HasPart == ELS(<<"H","a","s","P","a","r","t">>)
Elaborates == ELS(<<"E","l","a","b","o","r","a","t","e","s">>)
Foo == Term("ex", <<"F","o","o">>, 0)
DirectedBinaryLink == LS("DirectedBinaryLink")
Directed1toNLink == LS("Directed1toNLink")
B1 == Term("_", << "b1" >>, 0)
\* a class whose URI is the namespace itself: its local name is empty
NamespaceClass == ELS(<<>>)

ALIASES ==
  { << <<"e","l","a","b","o","r","a","t","i","o","n">>,
       <<"e","l","a","b","o","r","a","t","e","s">> >>,
    << <<"e","l","a","b","o","r","a","t","e">>,
       <<"e","l","a","b","o","r","a","t","e","s">> >>,
    << <<"c","o","n","t","r","o","l">>,
       <<"c","o","n","t","r","o","l","s">> >>,
    << <<"a","g","g","r","e","g","a","t","i","o","n">>,
       <<"h","a","s","p","a","r","t">> >>,
    << <<"a","g","g","r","e","g","a","t","e">>,
       <<"h","a","s","p","a","r","t">> >>,
    << <<"m","e","m","b","e","r","s","h","i","p">>,
       <<"h","a","s","m","e","m","b","e","r">> >>,
    << <<"m","e","m","b","e","r">>,
       <<"h","a","s","m","e","m","b","e","r">> >>,
    << <<"s","p","e","c","i","a","l","i","z","a","t","i","o","n">>,
       <<"s","p","e","c","i","a","l","i","s","e","s">> >>,
    << <<"s","p","e","c","i","a","l","i","s","a","t","i","o","n">>,
       <<"s","p","e","c","i","a","l","i","s","e","s">> >>,
    << <<"r","e","p","l","a","c","e","m","e","n","t">>,
       <<"s","u","p","e","r","s","e","d","e","s">> >>,
    << <<"i","d","e","n","t","i","t","y">>,
       <<"i","s","i","d","e","n","t","i","c","a","l","t","o">> >>,
    << <<"a","l","t","e","r","n","a","t","i","v","e">>,
       <<"i","s","a","l","t","e","r","n","a","t","i","v","e","t","o">> >>,
    << <<"c","o","n","f","l","i","c","t">>,
       <<"c","o","n","f","l","i","c","t","s","w","i","t","h">> >> }

\* ALIASES.get(k, k)
ALIASES_get(k) ==
  IF \E a \in ALIASES : a[1] = k
  THEN (CHOOSE a \in ALIASES : a[1] = k)[2]
  ELSE k

localname(u) == lower(u.name)

\* variant: the namespace of the class is not looked at
index_class_any(idx, g, c) ==
  LET labs == { lower(strip(lab.name)) : lab \in objects(g, c, RDFS_label) }
      keys == { localname(c) } \cup (labs \ { <<>> })
  IN  [k \in (DOMAIN idx) \cup keys |-> IF k \in keys THEN c ELSE idx[k]]

\* the body of the loop over the declared classes, for one class c
index_class(idx, g, c) ==
  IF c.ns # "els" THEN idx
  ELSE LET labs == { lower(strip(lab.name)) : lab \in objects(g, c, RDFS_label) }
           keys == { localname(c) } \cup (labs \ { <<>> })
       IN  [k \in (DOMAIN idx) \cup keys |-> IF k \in keys THEN c ELSE idx[k]]

RECURSIVE index_classes(_, _, _)
index_classes(idx, g, order) ==
  IF order = <<>> THEN idx
  ELSE index_classes(index_class(idx, g, Head(order)), g, Tail(order))

EmptyIndex == [k \in {} |-> NoneURI]

\* build_iso_semantics_index: the (name_to_uri, g_els) pairs it may return; the
\* store hands out the declared classes in an order of its own
build_iso_semantics_index(res) ==
  IF ~res.parsable
  THEN { [name_to_uri |-> EmptyIndex, g_els |-> {}] }
  ELSE { [name_to_uri |-> index_classes(EmptyIndex, res.g, order), g_els |-> res.g] :
           order \in Orders(subjects(res.g, RDF_type, OWL_Class)) }

\* a lookup that takes an unregistered name for the concept of that name
index_get_els(idx, k) == IF k \in DOMAIN idx THEN idx[k] ELSE ELS(k)

\* name_to_uri.get(k)
index_get(idx, k) == IF k \in DOMAIN idx THEN idx[k] ELSE NoneURI

-----------------------------------------------------------------------------
(* _is_subclass_of: the traversal, one loop iteration at a time *)

sub_start(child, parent) ==
  [child |-> child, parent |-> parent, stack |-> << child >>, seen |-> {},
   done |-> FALSE, result |-> FALSE]

\* the orders in which g.objects(cur, subClassOf) may be iterated
sup_orders(g, st) ==
  IF st.stack = <<>> THEN { <<>> }
  ELSE Orders(objects(g, st.stack[Len(st.stack)], RDFS_subClassOf))

\* variant: only the superclasses of the child itself are pushed
sub_step_shallow(g, st, sups) ==
  IF st.stack = <<>>
  THEN [st EXCEPT !.done = TRUE, !.result = FALSE]
  ELSE LET cur == st.stack[Len(st.stack)]
           rest == SubSeq(st.stack, 1, Len(st.stack) - 1)
       IN  IF cur = st.parent
           THEN [st EXCEPT !.stack = rest, !.done = TRUE, !.result = TRUE]
           ELSE IF cur \in st.seen \/ cur # st.child
           THEN [st EXCEPT !.stack = rest]
           ELSE [st EXCEPT !.stack = rest \o SelectSeq(sups, isURIRef),
                           !.seen = st.seen \cup { cur }]

sub_step(g, st, sups) ==
  IF st.stack = <<>>
  THEN [st EXCEPT !.done = TRUE, !.result = FALSE]
  ELSE LET cur == st.stack[Len(st.stack)]
           rest == SubSeq(st.stack, 1, Len(st.stack) - 1)
       IN  IF cur = st.parent
           THEN [st EXCEPT !.stack = rest, !.done = TRUE, !.result = TRUE]
           ELSE IF cur \in st.seen
           THEN [st EXCEPT !.stack = rest]
           ELSE [st EXCEPT !.stack = rest \o SelectSeq(sups, isURIRef),
                           !.seen = st.seen \cup { cur }]

RECURSIVE sub_run(_, _)
sub_run(g, st) ==
  IF st.done THEN st.result
  ELSE sub_run(g, sub_step(g, st, CHOOSE o \in sup_orders(g, st) : TRUE))

\* variant: the declared superclasses only, no traversal
is_subclass_of_direct(g, child, parent) ==
  child = parent \/ parent \in objects(g, child, RDFS_subClassOf)

is_subclass_of(g, child, parent) == sub_run(g, sub_start(child, parent))

-----------------------------------------------------------------------------
(* Relation Normalizer *)

\* a compaction that removes the spaces only
compact_spaces(t) == replace(t, " ", <<>>)

\* t.replace(" ", "").replace("_", "").replace("-", "")
compact(t) == replace(replace(replace(t, " ", <<>>), "_", <<>>), "-", <<>>)

normalize_csv_type_to_iso(relation_type_raw, idx, g) ==
  LET t == lower(strip(or_empty(relation_type_raw)))
      t_norm == ALIASES_get(compact(t))
      sem == index_get(idx, t_norm)
  IN  IF t = <<>> THEN [sem |-> NoneURI, structural |-> "Directed1toN"]
      ELSE IF sem = NoneURI THEN [sem |-> NoneURI, structural |-> "Directed1toN"]
      ELSE [sem |-> sem,
            structural |-> IF is_subclass_of(g, sem, DirectedBinaryLink)
                           THEN "DirectedBinary" ELSE "Directed1toN"]

-----------------------------------------------------------------------------
(* Directed Link Builder.  Every builder takes the graph g and the number n *)
(* of URIs minted so far, and returns the new graph and the new number.     *)

\* Python truthiness of a text or None
truthy(x) == x # None /\ x # <<>>

txt_string == << "s","t","r","i","n","g" >>
txt_uri == << "u","r","i" >>
txt_query == << "q","u","e","r","y" >>
txt_GUID == << "G","U","I","D" >>
txt_XPath == << "X","P","a","t","h" >>

\* a to_identifier dict; a key the dict lacks reads as None, as dict.get does
Identifier(kind, value, field, uri, expression, language) ==
  [kind |-> kind, value |-> value, field |-> field, uri |-> uri,
   expression |-> expression, language |-> language]

\* to_identifier=None (an empty dict is as false)
NoIdentifier == Identifier(None, None, None, None, None, None)

StringIdentifier(value) == Identifier(txt_string, value, txt_GUID, None, None, None)

UriIdentifier(uri) == Identifier(txt_uri, None, None, uri, None, None)

QueryIdentifier(expression, language) == Identifier(txt_query, None, None, None, expression, language)

\* variant: one LinkElement serves both ends when they wrap the same document
create_link_elements_shared(g, n, from_document_uri, to_document_uri) ==
  LET le_from_uri == generate_uri("LinkElement_from", n + 1)
      le_to_uri == IF to_document_uri = from_document_uri THEN le_from_uri
                   ELSE generate_uri("LinkElement_to", n + 2)
  IN  [g |-> g \cup { << le_from_uri, RDF_type, LS("LinkElement") >>,
                      << le_from_uri, "ls:hasDocument", from_document_uri >>,
                      << le_to_uri, RDF_type, LS("LinkElement") >>,
                      << le_to_uri, "ls:hasDocument", to_document_uri >> },
       from |-> le_from_uri, to |-> le_to_uri, n |-> n + 2]

create_link_elements(g, n, from_document_uri, to_document_uri) ==
  LET le_from_uri == generate_uri("LinkElement_from", n + 1)
      le_to_uri == generate_uri("LinkElement_to", n + 2)
  IN  [g |-> g \cup { << le_from_uri, RDF_type, LS("LinkElement") >>,
                      << le_from_uri, "ls:hasDocument", from_document_uri >>,
                      << le_to_uri, RDF_type, LS("LinkElement") >>,
                      << le_to_uri, "ls:hasDocument", to_document_uri >> },
       from |-> le_from_uri, to |-> le_to_uri, n |-> n + 2]

attach_string_identifier(g, n, link_element_uri, value, field) ==
  LET id_uri == generate_uri("StringBasedIdentifier", n + 1)
  IN  [g |-> g \cup { << id_uri, RDF_type, LS("StringBasedIdentifier") >>,
                      << id_uri, "ls:identifierField", Literal(field) >>,
                      << id_uri, "ls:identifier", Literal(value) >>,
                      << link_element_uri, "ls:hasIdentifier", id_uri >> },
       n |-> n + 1]

attach_uri_identifier(g, n, link_element_uri, uri_value) ==
  LET id_uri == generate_uri("URIBasedIdentifier", n + 1)
  IN  [g |-> g \cup { << id_uri, RDF_type, LS("URIBasedIdentifier") >>,
                      << id_uri, "ls:uri", Literal(uri_value) >>,
                      << link_element_uri, "ls:hasIdentifier", id_uri >> },
       n |-> n + 1]

attach_query_identifier(g, n, link_element_uri, query_expression, query_language) ==
  LET id_uri == generate_uri("QueryBasedIdentifier", n + 1)
  IN  [g |-> g \cup { << id_uri, RDF_type, LS("QueryBasedIdentifier") >>,
                      << id_uri, "ls:queryLanguage", Literal(query_language) >>,
                      << id_uri, "ls:queryExpression", Literal(query_expression) >>,
                      << link_element_uri, "ls:hasIdentifier", id_uri >> },
       n |-> n + 1]

\* variant: a structural_kind that is neither of the two names gets no type
structure_triples_strict(link_uri, structural_kind) ==
  IF structural_kind = "DirectedBinary"
  THEN { << link_uri, RDF_type, DirectedBinaryLink >> }
  ELSE IF structural_kind = "Directed1toN"
  THEN { << link_uri, RDF_type, Directed1toNLink >> }
  ELSE {}

\* step 2 of create_directed_link: the structural type of the link
structure_triples(link_uri, structural_kind) ==
  IF structural_kind = "DirectedBinary"
  THEN { << link_uri, RDF_type, DirectedBinaryLink >> }
  ELSE { << link_uri, RDF_type, Directed1toNLink >> }

\* variant: the kind alone decides, a missing value is written as empty
attach_identifier_partial(g, n, le_to_uri, to_identifier) ==
  LET kind == lower(or_empty(to_identifier.kind))
  IN  IF to_identifier = NoIdentifier THEN [g |-> g, n |-> n]
      ELSE IF kind = txt_string
      THEN attach_string_identifier(g, n, le_to_uri, or_empty(to_identifier.value),
             IF truthy(to_identifier.field) THEN to_identifier.field ELSE txt_GUID)
      ELSE IF kind = txt_uri
      THEN attach_uri_identifier(g, n, le_to_uri, or_empty(to_identifier.uri))
      ELSE IF kind = txt_query
      THEN attach_query_identifier(g, n, le_to_uri, or_empty(to_identifier.expression),
             IF truthy(to_identifier.language) THEN to_identifier.language ELSE txt_XPath)
      ELSE [g |-> g, n |-> n]

\* step 5 of create_directed_link: the identifier on the TO end
attach_identifier(g, n, le_to_uri, to_identifier) ==
  LET kind == lower(or_empty(to_identifier.kind))
  IN  IF to_identifier = NoIdentifier THEN [g |-> g, n |-> n]
      ELSE IF kind = txt_string /\ truthy(to_identifier.value)
      THEN attach_string_identifier(g, n, le_to_uri, to_identifier.value,
             IF truthy(to_identifier.field) THEN to_identifier.field ELSE txt_GUID)
      ELSE IF kind = txt_uri /\ truthy(to_identifier.uri)
      THEN attach_uri_identifier(g, n, le_to_uri, to_identifier.uri)
      ELSE IF kind = txt_query /\ truthy(to_identifier.expression)
      THEN attach_query_identifier(g, n, le_to_uri, to_identifier.expression,
             IF truthy(to_identifier.language) THEN to_identifier.language ELSE txt_XPath)
      ELSE [g |-> g, n |-> n]

\* variant: the identifier is attached to the FROM end
create_directed_link_from_id(g, n, from_document_uri, to_document_uri, sem_uri, structural_kind, to_identifier, note) ==
  LET link_uri == generate_uri("Link", n + 1)
      g1 == g \cup { << link_uri, RDF_type, LS("Link") >> }
      g2 == g1 \cup structure_triples(link_uri, structural_kind)
      g3 == IF sem_uri # NoneURI
            THEN g2 \cup { << link_uri, RDF_type, sem_uri >> } ELSE g2
      le == create_link_elements(g3, n + 1, from_document_uri, to_document_uri)
      g4 == le.g \cup { << link_uri, "ls:hasFromLinkElement", le.from >>,
                        << link_uri, "ls:hasToLinkElement", le.to >> }
      id == attach_identifier(g4, le.n, le.from, to_identifier)
      g6 == IF truthy(note)
            THEN id.g \cup { << link_uri, RDFS_comment, Literal(note) >> } ELSE id.g
  IN  [g |-> g6, n |-> id.n, link |-> link_uri, from |-> le.from, to |-> le.to]

create_directed_link(g, n, from_document_uri, to_document_uri, sem_uri, structural_kind, to_identifier, note) ==
  LET link_uri == generate_uri("Link", n + 1)
      g1 == g \cup { << link_uri, RDF_type, LS("Link") >> }
      g2 == g1 \cup structure_triples(link_uri, structural_kind)
      g3 == IF sem_uri # NoneURI
            THEN g2 \cup { << link_uri, RDF_type, sem_uri >> } ELSE g2
      le == create_link_elements(g3, n + 1, from_document_uri, to_document_uri)
      g4 == le.g \cup { << link_uri, "ls:hasFromLinkElement", le.from >>,
                        << link_uri, "ls:hasToLinkElement", le.to >> }
      id == attach_identifier(g4, le.n, le.to, to_identifier)
      g6 == IF truthy(note)
            THEN id.g \cup { << link_uri, RDFS_comment, Literal(note) >> } ELSE id.g
  IN  [g |-> g6, n |-> id.n, link |-> link_uri, from |-> le.from, to |-> le.to]

-----------------------------------------------------------------------------
(* Document Index *)

txt_ifc == << ".","i","f","c" >>
txt_pdf == << ".","p","d","f" >>

Document(n, kind, path, filetype) ==
  [uri |-> generate_uri(IF kind = "File" THEN "InternalDocument" ELSE "FolderDocument", n),
   kind |-> kind, path |-> path, filetype |-> filetype]

\* a search that takes a path holding path_value as a part for a match
first_match_part(docs, kind, path_value) ==
  LET hits == { i \in 1..Len(docs) : docs[i].kind = kind /\ contains(docs[i].path, path_value) }
  IN  IF hits = {} THEN NoneURI
      ELSE docs[CHOOSE i \in hits : \A j \in hits : i <= j].uri

\* the first member of the sequence docs that has the kind and the path
first_match(docs, kind, path_value) ==
  LET hits == { i \in 1..Len(docs) : docs[i].kind = kind /\ docs[i].path = path_value }
  IN  IF hits = {} THEN NoneURI
      ELSE docs[CHOOSE i \in hits : \A j \in hits : i <= j].uri

find_document_uri(docs, path_value) ==
  LET p == replace(path_value, "\\", << "/" >>)
      by_filename == first_match(docs, "File", p)
  IN  IF by_filename # NoneURI THEN by_filename
      ELSE first_match(docs, "Folder", p)

\* the scan of Index.rdf for IFC documents (ct:filetype holding ".ifc")
find_ifc_uris(docs) ==
  LET is_ifc(d) == d.kind = "File" /\ contains(lower(strip(d.filetype)), txt_ifc)
      pick == SelectSeq(docs, is_ifc)
  IN  [i \in 1..Len(pick) |-> pick[i].uri]

-----------------------------------------------------------------------------
(* Inputs of an import: the registry, the ontology resource, the CSV rows *)

DocA == Document(1, "File", << "a",".","p","d","f" >>, txt_pdf)
DocD == Document(2, "Folder", << "d" >>, None)
DocM == Document(3, "File", << "d","/","m",".","i","f","c" >>, txt_ifc)
DocN == Document(4, "File", << "n",".","i","f","c" >>, txt_ifc)

AllDocs == { DocA, DocD, DocM, DocN }

\* a registry without IFC documents and one with two of them
Registries == { << DocA, DocD >>, << DocN, DocA, DocM >> }

ClassDecls == { << c, RDF_type, OWL_Class >> : c \in { HasPart, Elaborates, Foo } }

Resource(parsable, g) == [parsable |-> parsable, g |-> g]

\* an ontology in which Elaborates is a binary link and HasPart is not, and a
\* resource that is missing or does not parse
Ontologies ==
  { Resource(TRUE, ClassDecls \cup
                   { << Elaborates, RDFS_subClassOf, DirectedBinaryLink >>,
                     << HasPart, RDFS_subClassOf, Directed1toNLink >> }),
    Resource(FALSE, {}) }

txt_unknown == << " ","x","y","z","-","u","n","k","n","o","w","n" >>
txt_G1 == << "G","1" >>
txt_P1 == << "P","1" >>

FromCells == { << "x",".","p","d","f" >>, << " ","\\","a",".","p","d","f" >> }
ToCells == { None, << "/","d","/","m",".","i","f","c" >>, << "d"," " >> }
TypeCells == { None, txt_unknown, << "A","g","g","r","e","g","a","t","i","o","n" >>, << "E","l","a","b","o","r","a","t","e" >> }
GuidCells == { None, << " " >>, txt_G1 }

\* A row as csv.DictReader hands it over: a cell is None when the line is
\* shorter than the header; row.get("GUID") is None also without a GUID column.
Rows(guid_col) ==
  [fromPath : FromCells, toPath : ToCells, Type : TypeCells,
   GUID : IF guid_col THEN GuidCells ELSE { None }]

EntryPoints == { "process_csv_links", "build_icdd_auto_csv", "import_csv_links_complete" }

-----------------------------------------------------------------------------
(* The body of the row loop *)

\* row["fromPath"].strip().lstrip("\\/").replace("\\", "/")
csv_path(cell) == replace(lstrip(strip(cell), { "\\", "/" }), "\\", << "/" >>)

txt_unmapped == << "U","n","m","a","p","p","e","d"," ","C","S","V"," ","T","y","p","e",":"," ","'" >>

\* variant: the note quotes the compact lower-case key instead of the text
unmapped_note_key(relation_type) ==
  txt_unmapped \o compact(lower(relation_type)) \o << "'" >>

unmapped_note(relation_type) == txt_unmapped \o relation_type \o << "'" >>

\* one record of the call history: the arguments of a create_directed_link
\* call (or of a ls:Linkset written by complete_build) and the URIs it returned
Call(role, rowno, relation_type, res, from_document_uri, to_document_uri, sem_uri, structural_kind, to_identifier, note) ==
  [role |-> role, rowno |-> rowno, relation_type |-> relation_type, link |-> res.link,
   from_document_uri |-> from_document_uri, to_document_uri |-> to_document_uri,
   sem_uri |-> sem_uri, structural_kind |-> structural_kind,
   to_identifier |-> to_identifier, note |-> note]

RowResult(outcome, g, n, warnings, calls) ==
  [outcome |-> outcome, g |-> g, n |-> n, warnings |-> warnings, calls |-> calls]

\* the main link of a row
main_link(g, n, from_uri, to_uri, norm, to_identifier, note) ==
  create_directed_link(g, n, from_uri, to_uri, norm.sem, norm.structural,
                       to_identifier, note)

\* variant: the TO end is anchored on the last IFC document
aux_link_last(g, n, ifcs, guid_value) ==
  create_directed_link(g, n, ifcs[1], ifcs[Len(ifcs)], HasPart, "Directed1toN",
                       StringIdentifier(guid_value), None)

\* variant: the link is anchored on the IFC document that was found last
aux_link_on_last(g, n, ifcs, guid_value) ==
  create_directed_link(g, n, ifcs[Len(ifcs)], ifcs[Len(ifcs)], HasPart, "Directed1toN",
                       StringIdentifier(guid_value), None)

\* the auxiliary HasPart link of a row, on the first IFC document
aux_link(g, n, ifcs, guid_value) ==
  create_directed_link(g, n, ifcs[1], ifcs[1], HasPart, "Directed1toN",
                       StringIdentifier(guid_value), None)

\* variant: the identifier of the row is not looked at
wants_aux_any(guid_value, ifcs) == ifcs # <<>>

\* whether the row gets the auxiliary link
wants_aux(guid_value, ifcs) == guid_value # <<>> /\ ifcs # <<>>

\* variant: if not from_uri and not to_uri
not_found_both(from_uri, to_uri) == from_uri = NoneURI /\ to_uri = NoneURI

\* if not from_uri or not to_uri
not_found(from_uri, to_uri) == from_uri = NoneURI \/ to_uri = NoneURI

\* the result of a row that got both links
import_aux(noted, main_call, aux_call, aux) ==
  RowResult("linked", aux.g, aux.n, noted, << main_call, aux_call >>)

\* the row loop after the main link: the auxiliary link, if the row gets one
import_linked(rowno, guid_value, ifcs, noted, main, main_call) ==
  IF wants_aux(guid_value, ifcs)
  THEN import_aux(noted, main_call,
                  Call("aux", rowno, None, aux_link(main.g, main.n, ifcs, guid_value),
                       ifcs[1], ifcs[1], HasPart, "Directed1toN",
                       StringIdentifier(guid_value), None),
                  aux_link(main.g, main.n, ifcs, guid_value))
  ELSE RowResult("linked", main.g, main.n, noted, << main_call >>)

\* the row loop once the main link is made
import_main(rowno, from_uri, to_uri, relation_type, guid_value, to_identifier, norm, note, ifcs, main) ==
  import_linked(rowno, guid_value, ifcs, IF norm.sem = NoneURI THEN 1 ELSE 0, main,
                Call("main", rowno, relation_type, main, from_uri, to_uri, norm.sem,
                     norm.structural, to_identifier, note))

\* the row loop after normalize_csv_type_to_iso: the note and the main link
import_typed(rowno, from_uri, to_uri, relation_type, guid_value, to_identifier, norm, ifcs, g, n) ==
  LET note == IF norm.sem = NoneURI THEN unmapped_note(relation_type) ELSE None
  IN  import_main(rowno, from_uri, to_uri, relation_type, guid_value, to_identifier,
                  norm, note, ifcs,
                  main_link(g, n, from_uri, to_uri, norm, to_identifier, note))

\* the row loop after the two lookups
import_found(rowno, from_uri, to_uri, relation_type, guid_value, ifcs, idx, gels, g, n) ==
  IF not_found(from_uri, to_uri)
  THEN RowResult("skipped", g, n,
                 (IF from_uri = NoneURI THEN 1 ELSE 0)
                 + (IF to_uri = NoneURI THEN 1 ELSE 0) + 1, <<>>)
  ELSE import_typed(rowno, from_uri, to_uri, relation_type, guid_value,
                    IF guid_value # <<>> THEN StringIdentifier(guid_value)
                    ELSE NoIdentifier,
                    normalize_csv_type_to_iso(relation_type, idx, gels), ifcs, g, n)

\* the row loop of process_csv_links and of build_icdd_auto_csv, for one row r
import_row(r, rowno, docs, ifcs, idx, gels, g, n) ==
  IF r.fromPath = None \/ r.toPath = None
  THEN RowResult("raised", g, n, 0, <<>>)
  ELSE import_found(rowno, find_document_uri(docs, csv_path(r.fromPath)),
                    find_document_uri(docs, csv_path(r.toPath)),
                    strip(or_empty(r.Type)), strip(or_empty(r.GUID)),
                    ifcs, idx, gels, g, n)

\* a ls:Linkset individual of complete_build, with its identifier when guid is given
linkset(g, n, from_uri, to_uri, relation_type, guid) ==
  LET linkset_uri == generate_uri("Linkset", n + 1)
      identifier_uri == generate_uri("StringBasedIdentifier", n + 2)
      g1 == g \cup { << linkset_uri, RDF_type, LS("Linkset") >>,
                     << linkset_uri, "ls:hasFromLinkElement", from_uri >>,
                     << linkset_uri, "ls:hasToLinkElement", to_uri >>,
                     << linkset_uri, "ls:relationType", Literal(relation_type) >> }
  IN  IF guid = <<>>
      THEN [g |-> g1, n |-> n + 1, link |-> linkset_uri]
      ELSE [g |-> g1 \cup { << identifier_uri, "ls:identifierField", Literal(txt_GUID) >>,
                            << identifier_uri, "ls:identifier", Literal(guid) >>,
                            << linkset_uri, "ls:hasIdentifier", identifier_uri >> },
            n |-> n + 2, link |-> linkset_uri]

txt_IfcPart == << "IfcPart" >>
txt_IfcProject == << "IfcProject" >>

\* the result of a row that got the IfcPart linkset as well
complete_part(main_call, rowno, ifcs, guid_value, part) ==
  RowResult("linked", part.g, part.n, 0,
            << main_call,
               Call("ifcpart", rowno, txt_IfcPart, part, ifcs[1],
                    Term("base", << "IfcComponent_" >> \o guid_value, 0), NoneURI, "",
                    StringIdentifier(guid_value), txt_IfcPart) >>)

\* the row loop of import_csv_links_complete once the ls:Linkset of the row is
\* written: the IfcPart linkset, if the identifier is a GlobalId of the IFC file
complete_linked(rowno, from_uri, to_uri, relation_type, guid_value, ifcs, objs, main, main_call) ==
  IF guid_value # <<>> /\ objs # {} /\ guid_value \in objs
  THEN complete_part(main_call, rowno, ifcs, guid_value,
                     linkset(main.g, main.n, ifcs[1],
                             Term("base", << "IfcComponent_" >> \o guid_value, 0),
                             txt_IfcPart, guid_value))
  ELSE RowResult("linked", main.g, main.n,
                 IF guid_value # <<>> /\ objs # {} THEN 1 ELSE 0, << main_call >>)

\* the record of the ls:Linkset of the row
complete_main(rowno, from_uri, to_uri, relation_type, guid_value, ifcs, objs, main) ==
  complete_linked(rowno, from_uri, to_uri, relation_type, guid_value, ifcs, objs, main,
                  Call("linkset", rowno, relation_type, main, from_uri, to_uri, NoneURI,
                       "", StringIdentifier(guid_value), relation_type))

\* the ls:Linkset of the row
complete_typed(rowno, from_uri, to_uri, relation_type, guid_value, ifcs, objs, g, n) ==
  complete_main(rowno, from_uri, to_uri, relation_type, guid_value, ifcs, objs,
                linkset(g, n, from_uri, to_uri, relation_type, guid_value))

\* the row loop of import_csv_links_complete after the two lookups
complete_found(r, rowno, guid_col, from_uri, to_uri, ifcs, objs, g, n) ==
  LET bare == linkset(g, n, from_uri, to_uri, strip(r.Type), <<>>)
  IN  IF from_uri = NoneURI \/ to_uri = NoneURI
      THEN RowResult("skipped", g, n,
                     (IF from_uri = NoneURI THEN 1 ELSE 0)
                     + (IF to_uri = NoneURI THEN 1 ELSE 0) + 1, <<>>)
      ELSE IF guid_col /\ r.GUID = None
      THEN RowResult("raised", bare.g, bare.n, 0, <<>>)
      ELSE complete_typed(rowno, from_uri, to_uri, strip(r.Type),
                          IF guid_col THEN strip(r.GUID) ELSE <<>>, ifcs, objs, g, n)

\* the row loop of import_csv_links_complete, for one row r
complete_row(r, rowno, guid_col, docs, ifcs, objs, g, n) ==
  IF r.fromPath = None \/ r.toPath = None \/ r.Type = None
  THEN RowResult("raised", g, n, 0, <<>>)
  ELSE complete_found(r, rowno, guid_col,
                      find_document_uri(docs, csv_path(r.fromPath)),
                      find_document_uri(docs, csv_path(r.toPath)), ifcs, objs, g, n)

-----------------------------------------------------------------------------
(* The import entry points *)

NoNorm == [text |-> None, sem |-> NoneURI, structural |-> "", calls |-> 0]
NoSub == [child |-> NoneURI, parent |-> NoneURI, stack |-> <<>>, seen |-> {},
          done |-> TRUE, result |-> FALSE]
NoLog == [warnings |-> 0, errors |-> 0, shown |-> 0]
\* the container directory of an import, with nothing recorded about its payload
NoFs == [container_dir |-> TRUE, payload |-> {}, listing |-> <<>>, icdd |-> 0]
NoCsv == [files |-> 0, rows |-> 0, guid_col |-> FALSE, accepted |-> 0, rejected |-> 0,
          resolved |-> 0, qualifying |-> 0]

Init ==
  /\ pc = "start"
  /\ entry \in EntryPoints
  /\ g_index = [docs |-> <<>>, linksets |-> {}]
  /\ onto \in Ontologies
  /\ (entry = "import_csv_links_complete" => onto = Resource(FALSE, {}))
  /\ name_to_uri = EmptyIndex
  /\ g_els = {}
  /\ ifc_uris = <<>>
  /\ ifc_objects_dict = {}
  /\ g_links = {}
  /\ next_id = Cardinality(AllDocs)
  /\ csv = NoCsv
  /\ log = NoLog
  /\ written = <<>>
  /\ made = <<>>
  /\ norm_out = NoNorm
  /\ sub = NoSub
  /\ lookups = <<>>
  /\ fs = NoFs
  /\ walks = <<>>
  /\ collapsed = <<>>

\* variant: the Documents are not in the index when the rows are read
load_index_later(index, docs) == index

\* the Document Index as the import reads it: g_index.parse(index_path), in
\* build_icdd_auto_csv after add_documents_flat has walked the payload directory
load_index(index, docs) == [index EXCEPT !.docs = docs]

\* process_csv_links up to the opening of the CSV file: the parse of
\* Index.rdf, the scan for IFC documents and build_iso_semantics_index
Start_process_csv_links ==
  /\ pc = "start" /\ entry = "process_csv_links"
  /\ \E docs \in Registries :
       /\ g_index' = load_index(g_index, docs)
       /\ ifc_uris' = find_ifc_uris(load_index(g_index, docs).docs)
  /\ \E ix \in build_iso_semantics_index(onto) :
       /\ name_to_uri' = ix.name_to_uri
       /\ g_els' = ix.g_els
       /\ log' = [log EXCEPT !.warnings = @ + (IF DOMAIN ix.name_to_uri = {} THEN 1 ELSE 0)]
  /\ csv' = [csv EXCEPT !.files = 1]
  /\ pc' = "open"
  /\ UNCHANGED << entry, onto, ifc_objects_dict, g_links, next_id, written, made, norm_out, sub, lookups, fs, walks, collapsed >>

\* build_icdd_auto_csv from the update of Index.rdf and the search for CSV files in the CDE backup up to the
\* opening of the first one; without a CSV file the import is skipped
Start_build_icdd_auto_csv ==
  /\ pc = "start" /\ entry = "build_icdd_auto_csv"
  /\ \E docs \in Registries, csv_files \in 0..MaxFiles :
       /\ g_index' = load_index(g_index, docs)
       /\ IF csv_files = 0
          THEN /\ pc' = "done"
               /\ UNCHANGED << name_to_uri, g_els, ifc_uris, csv, log >>
          ELSE /\ \E ix \in build_iso_semantics_index(onto) :
                    /\ name_to_uri' = ix.name_to_uri
                    /\ g_els' = ix.g_els
                    /\ log' = [log EXCEPT !.warnings =
                                 @ + (IF DOMAIN ix.name_to_uri = {} THEN 1 ELSE 0)]
               /\ ifc_uris' = find_ifc_uris(load_index(g_index, docs).docs)
               /\ csv' = [csv EXCEPT !.files = csv_files]
               /\ pc' = "open"
  /\ UNCHANGED << entry, onto, ifc_objects_dict, g_links, next_id, written, made, norm_out, sub, lookups, fs, walks, collapsed >>

\* import_csv_links_complete up to the opening of the CSV file: the parse of
\* Index.rdf, the scan for IFC documents and the GlobalIds read from them
\* (none without ifcopenshell)
Start_import_csv_links_complete ==
  /\ pc = "start" /\ entry = "import_csv_links_complete"
  /\ \E docs \in Registries, objs \in SUBSET { txt_G1 } :
       /\ g_index' = load_index(g_index, docs)
       /\ ifc_uris' = find_ifc_uris(load_index(g_index, docs).docs)
       /\ (find_ifc_uris(load_index(g_index, docs).docs) = <<>> => objs = {})
       /\ ifc_objects_dict' = objs
  /\ csv' = [csv EXCEPT !.files = 1]
  /\ pc' = "open"
  /\ UNCHANGED << entry, onto, name_to_uri, g_els, g_links, next_id, log, written, made, norm_out, sub, lookups, fs, walks, collapsed >>

\* where build_icdd_auto_csv goes when it is done with a CSV file
after_file(files_left) == IF files_left > 0 THEN "open" ELSE "save"

\* variant: build_icdd_auto_csv gives up like the other two
on_missing_columns_abort(lg, files_left) ==
  [pc |-> "returned", log |-> [lg EXCEPT !.shown = @ + 1]]

\* what the entry point does with a file that lacks a required column
on_missing_columns(lg, files_left) ==
  IF entry = "build_icdd_auto_csv"
  THEN [pc |-> after_file(files_left), log |-> [lg EXCEPT !.warnings = @ + 1]]
  ELSE [pc |-> "returned", log |-> [lg EXCEPT !.shown = @ + 1]]

\* csv.DictReader on the next file and the check of the required columns
OpenCsv ==
  /\ pc = "open"
  /\ \E columns_ok \in BOOLEAN, guid_col \in BOOLEAN :
       LET bad == on_missing_columns(log, csv.files - 1)
       IN  IF columns_ok
           THEN /\ csv' = [csv EXCEPT !.files = @ - 1, !.guid_col = guid_col,
                                      !.accepted = @ + 1]
                /\ pc' = "rows"
                /\ log' = log
           ELSE /\ ~guid_col
                /\ csv' = [csv EXCEPT !.files = @ - 1, !.guid_col = FALSE,
                                      !.rejected = @ + 1]
                /\ pc' = bad.pc
                /\ log' = bad.log
  /\ UNCHANGED << entry, g_index, onto, name_to_uri, g_els, ifc_uris,
                  ifc_objects_dict, g_links, next_id, written, made,
                  norm_out, sub, lookups, fs, walks, collapsed >>

\* what the entry point does with an exception raised inside the row loop
on_exception(lg, files_left) ==
  IF entry = "process_csv_links"
  THEN [pc |-> "returned", log |-> [lg EXCEPT !.shown = @ + 1]]
  ELSE IF entry = "build_icdd_auto_csv"
  THEN [pc |-> after_file(files_left), log |-> [lg EXCEPT !.errors = @ + 1]]
  ELSE [pc |-> "raised", log |-> lg]

\* whether the two paths of the row r are paths of registered documents
row_resolves(r) ==
  /\ r.fromPath # None /\ r.toPath # None
  /\ find_document_uri(g_index.docs, csv_path(r.fromPath)) # NoneURI
  /\ find_document_uri(g_index.docs, csv_path(r.toPath)) # NoneURI

\* whether r also carries an identifier while an IFC document is registered
row_qualifies(r) ==
  /\ row_resolves(r)
  /\ strip(or_empty(r.GUID)) # <<>>
  /\ \E i \in DOMAIN g_index.docs :
       g_index.docs[i].kind = "File" /\ contains(g_index.docs[i].filetype, txt_ifc)

\* the effect of one pass of the row loop, given what the body did with r
row_step(r, rowno, res) ==
  LET lg == [log EXCEPT !.warnings = @ + res.warnings]
      exc == on_exception(lg, csv.files)
  IN  /\ g_links' = res.g
      /\ next_id' = res.n
      /\ made' = made \o res.calls
      /\ csv' = [csv EXCEPT !.rows = rowno,
                            !.resolved = @ + (IF row_resolves(r) THEN 1 ELSE 0),
                            !.qualifying = @ + (IF row_qualifies(r) THEN 1 ELSE 0)]
      /\ IF res.outcome = "raised"
         THEN pc' = exc.pc /\ log' = exc.log
         ELSE pc' = "rows" /\ log' = lg

\* one pass of the row loop, reading the row r
read_row(r) ==
  /\ pc = "rows"
  /\ csv.rows < MaxRows
  /\ row_step(r, csv.rows + 1,
              IF entry = "import_csv_links_complete"
              THEN complete_row(r, csv.rows + 1, csv.guid_col, g_index.docs, ifc_uris,
                                ifc_objects_dict, g_links, next_id)
              ELSE import_row(r, csv.rows + 1, g_index.docs, ifc_uris, name_to_uri,
                              g_els, g_links, next_id))
  /\ UNCHANGED << entry, g_index, onto, name_to_uri, g_els, ifc_uris,
                  ifc_objects_dict, written, norm_out, sub, lookups, fs, walks, collapsed >>

ReadRow == \E r \in Rows(csv.guid_col) : read_row(r)

\* the reader is exhausted
EndOfRows ==
  /\ pc = "rows"
  /\ pc' = IF entry = "build_icdd_auto_csv" THEN after_file(csv.files)
           ELSE "ifc_project"
  /\ UNCHANGED << entry, g_index, onto, name_to_uri, g_els, ifc_uris,
                  ifc_objects_dict, g_links, next_id, csv, log, written, made,
                  norm_out, sub, lookups, fs, walks, collapsed >>

\* the IfcProject link of one IFC document
project_link(g, n, ifc_uri) ==
  IF entry = "import_csv_links_complete"
  THEN linkset(g, n, ifc_uri, Term("base", << "IfcProject_" >> \o txt_P1, 0),
               txt_IfcProject, txt_P1)
  ELSE create_directed_link(g, n, ifc_uri, ifc_uri, HasPart, "Directed1toN",
                            StringIdentifier(txt_P1), None)

\* the loop over ifc_uris after the row loop; found: the IFC documents in
\* which ifcopenshell finds an IfcProject
RECURSIVE project_links(_, _, _, _, _)
project_links(g, n, calls, ifcs, found) ==
  IF ifcs = <<>> THEN [g |-> g, n |-> n, calls |-> calls]
  ELSE IF Head(ifcs) \in found
  THEN LET one == project_link(g, n, Head(ifcs))
           call == IF entry = "import_csv_links_complete"
                   THEN Call("ifcproject", 0, txt_IfcProject, one, Head(ifcs),
                             Term("base", << "IfcProject_" >> \o txt_P1, 0), NoneURI,
                             "", StringIdentifier(txt_P1), txt_IfcProject)
                   ELSE Call("project", 0, None, one, Head(ifcs), Head(ifcs), HasPart,
                             "Directed1toN", StringIdentifier(txt_P1), None)
       IN  project_links(one.g, one.n, Append(calls, call), Tail(ifcs), found)
  ELSE project_links(g, n, calls, Tail(ifcs), found)

IfcProject ==
  /\ pc = "ifc_project"
  /\ \E found \in SUBSET { ifc_uris[i] : i \in DOMAIN ifc_uris } :
       LET res == project_links(g_links, next_id, <<>>, ifc_uris, found)
       IN  /\ g_links' = res.g
           /\ next_id' = res.n
           /\ made' = made \o res.calls
  /\ pc' = "save"
  /\ UNCHANGED << entry, g_index, onto, name_to_uri, g_els, ifc_uris,
                  ifc_objects_dict, csv, log, written, norm_out, sub, lookups, fs, walks, collapsed >>

\* the relationship graph is serialized to a file with a new name
Save ==
  /\ pc = "save"
  /\ written' = Append(written, g_links)
  /\ next_id' = next_id + 1
  /\ pc' = "index"
  /\ UNCHANGED << entry, g_index, onto, name_to_uri, g_els, ifc_uris, ifc_objects_dict,
                  g_links, csv, log, made, norm_out, sub, lookups, fs, walks, collapsed >>

\* variant: the index is left as it is
back_reference_none(linksets, n) == linksets

\* variant: the index gets a second statement besides the back-reference
back_reference_pair(linksets, n) == linksets \cup { generate_uri("LinksetRelations_", n), generate_uri("InternalDocument", n) }

\* g_index.add((container_uri, CT.containsLinkset, URIRef(linkset_file_ref)))
back_reference(linksets, n) == linksets \cup { generate_uri("LinksetRelations_", n) }

\* Index.rdf gets the back-reference to the file that was written
UpdateIndex ==
  /\ pc = "index"
  /\ g_index' = [g_index EXCEPT !.linksets = back_reference(@, next_id)]
  /\ pc' = "done"
  /\ UNCHANGED << entry, onto, name_to_uri, g_els, ifc_uris, ifc_objects_dict,
                  g_links, next_id, csv, log, written, made, norm_out, sub, lookups, fs, walks, collapsed >>

Next ==
  \/ Start_process_csv_links
  \/ Start_build_icdd_auto_csv
  \/ Start_import_csv_links_complete
  \/ OpenCsv
  \/ ReadRow
  \/ EndOfRows
  \/ IfcProject
  \/ Save
  \/ UpdateIndex

Spec == Init /\ [][Next]_vars

-----------------------------------------------------------------------------
(* The Relation Normalizer on its own: any ontology of up to MaxEdges       *)
(* subClassOf triples over two concepts, the binary base and a blank node   *)

Nodes == { HasPart, Elaborates, DirectedBinaryLink, B1 }

EdgeCands == { << a, RDFS_subClassOf, b >> : a \in Nodes, b \in Nodes }

EdgeSets == { E \in SUBSET EdgeCands : Cardinality(E) <= MaxEdges }

\* a label that is no compact key, and one that is the local name of another class
LabelCands == { << Elaborates, RDFS_label, Literal(<< " ","H","a","s","-","P","a","r","t"," " >>) >>,
                << Elaborates, RDFS_label, Literal(<< "H","A","S","P","A","R","T" >>) >> }

NormResources ==
  { Resource(FALSE, {}) } \cup
  { Resource(TRUE, ClassDecls \cup labels \cup edges) :
      labels \in { {}, LabelCands }, edges \in EdgeSets } \cup
  { Resource(TRUE, ClassDecls \cup { << NamespaceClass, RDF_type, OWL_Class >> } \cup edges) :
      edges \in SUBSET { << NamespaceClass, RDFS_subClassOf, b >> : b \in Nodes } }

TypeTexts ==
  { None, << " ", " " >>, txt_unknown, << "A","g","g","r","e","g","a","t","i","o","n" >>,
    << "a","g","g","-","r","e","g","_","a","t","i","o","n"," " >>, << "E","l","a","b","o","r","a","t","e" >>,
    << "e","l","a","b","o","r","a","t","e","s" >>, << "H","a","s"," ","P","a","r","t" >>, << "h","a","s","-","p","a","r","t" >>,
    << "-" >> }

NormInit ==
  /\ pc = "normalizer"
  /\ entry = "normalize_csv_type_to_iso"
  /\ g_index = [docs |-> <<>>, linksets |-> {}]
  /\ onto \in NormResources
  /\ \E ix \in build_iso_semantics_index(onto) :
       name_to_uri = ix.name_to_uri /\ g_els = ix.g_els
  /\ ifc_uris = <<>>
  /\ ifc_objects_dict = {}
  /\ g_links = {}
  /\ next_id = 0
  /\ csv = NoCsv
  /\ log = NoLog
  /\ written = <<>>
  /\ made = <<>>
  /\ norm_out = NoNorm
  /\ sub = NoSub
  /\ lookups = <<>>
  /\ fs = NoFs
  /\ walks = <<>>
  /\ collapsed = <<>>

\* the key under which a type text is looked up, before the alias table:
\* trimmed, case-folded, without spaces, underscores and hyphens
compact_key(text) ==
  SelectSeq(lower(strip(or_empty(text))), LAMBDA ch : ch \notin { " ", "_", "-" })

\* the first call of normalize_csv_type_to_iso on the index and graph that were built
Normalize ==
  /\ pc = "normalizer"
  /\ norm_out = NoNorm
  /\ \E text \in TypeTexts :
       LET res == normalize_csv_type_to_iso(text, name_to_uri, g_els)
       IN  norm_out' = [text |-> text, sem |-> res.sem, structural |-> res.structural,
                        calls |-> 1]
  /\ UNCHANGED << pc, entry, g_index, onto, name_to_uri, g_els, ifc_uris,
                  ifc_objects_dict, g_links, next_id, csv, log, written, made, sub, lookups, fs, walks, collapsed >>

\* a second call on the same index and graph, with the same text or another
\* text of the same compact key
NormalizeAgain ==
  /\ pc = "normalizer"
  /\ norm_out.calls = 1
  /\ \E text \in TypeTexts :
       LET res == normalize_csv_type_to_iso(text, name_to_uri, g_els)
       IN  /\ compact_key(text) = compact_key(norm_out.text)
           /\ norm_out' = [text |-> text, sem |-> res.sem, structural |-> res.structural,
                           calls |-> 2]
  /\ UNCHANGED << pc, entry, g_index, onto, name_to_uri, g_els, ifc_uris,
                  ifc_objects_dict, g_links, next_id, csv, log, written, made, sub, lookups, fs, walks, collapsed >>

NormNext ==
  \/ Normalize
  \/ NormalizeAgain

NormSpec == NormInit /\ [][NormNext]_vars

-----------------------------------------------------------------------------
(* _is_subclass_of on its own, one loop iteration per step *)

Concepts == { n \in Nodes : isURIRef(n) }

SubInit ==
  /\ pc = "subclass"
  /\ entry = "_is_subclass_of"
  /\ g_index = [docs |-> <<>>, linksets |-> {}]
  /\ \E edges \in EdgeSets : onto = Resource(TRUE, edges)
  /\ name_to_uri = EmptyIndex
  /\ g_els = onto.g
  /\ ifc_uris = <<>>
  /\ ifc_objects_dict = {}
  /\ g_links = {}
  /\ next_id = 0
  /\ csv = NoCsv
  /\ log = NoLog
  /\ written = <<>>
  /\ made = <<>>
  /\ norm_out = NoNorm
  /\ \E child \in Concepts, parent \in Concepts : sub = sub_start(child, parent)
  /\ lookups = <<>>
  /\ fs = NoFs
  /\ walks = <<>>
  /\ collapsed = <<>>

\* one iteration of the while loop; the store hands out the superclasses of
\* the popped concept in an order of its own
SubStep ==
  /\ pc = "subclass"
  /\ ~sub.done
  /\ \E sups \in sup_orders(g_els, sub) : sub' = sub_step(g_els, sub, sups)
  /\ UNCHANGED << pc, entry, g_index, onto, name_to_uri, g_els, ifc_uris,
                  ifc_objects_dict, g_links, next_id, csv, log, written, made,
                  norm_out, lookups, fs, walks, collapsed >>

SubNext == SubStep

\* the loop is sequential code: an iteration that can run does run
SubSpec == SubInit /\ [][SubNext]_vars /\ WF_vars(SubNext)

-----------------------------------------------------------------------------
(* The Directed Link Builder on its own: calls with any arguments *)

StructuralKinds == { "Directed1toN", "DirectedBinary", "Directed1ToN" }

txt_urn == << "u","r","n",":","1" >>
txt_expr == << "/","/","w","a","l","l" >>
txt_guid_kind == << "g","u","i","d" >>

\* payloads that carry what their kind needs: a string-keyed one without a
\* field name, a URI-based one, a query-based one without a language
ValidIdentifiers ==
  { Identifier(txt_string, txt_G1, None, None, None, None),
    UriIdentifier(txt_urn),
    QueryIdentifier(txt_expr, None) }

\* payloads whose kind is not supported or that lack what their kind needs
MalformedIdentifiers ==
  { Identifier(txt_guid_kind, txt_G1, txt_GUID, None, None, None),
    Identifier(None, txt_G1, txt_GUID, txt_urn, txt_expr, txt_XPath),
    Identifier(txt_string, None, txt_GUID, None, None, None),
    Identifier(txt_string, <<>>, txt_GUID, None, None, None),
    UriIdentifier(<<>>),
    QueryIdentifier(None, txt_XPath) }

\* every combination of concept, shape name and note, with and without the
\* identifier the row loop passes, on a link between two documents; and every
\* payload on a plain link between two documents and from a document to itself
BuilderArgs ==
  [from_document_uri : { DocA.uri }, to_document_uri : { DocM.uri },
   sem_uri : { NoneURI, Elaborates }, structural_kind : StructuralKinds,
   to_identifier : { NoIdentifier, StringIdentifier(txt_G1) },
   note : { None, unmapped_note(txt_unknown) }] \cup
  [from_document_uri : { DocA.uri, DocM.uri }, to_document_uri : { DocM.uri },
   sem_uri : { NoneURI }, structural_kind : { "Directed1toN" },
   to_identifier : { NoIdentifier, StringIdentifier(txt_G1) }
                     \cup ValidIdentifiers \cup MalformedIdentifiers,
   note : { None }]

BuilderInit ==
  /\ pc = "builder"
  /\ entry = "create_directed_link"
  /\ g_index = [docs |-> << DocN, DocA, DocM >>, linksets |-> {}]
  /\ onto = Resource(FALSE, {})
  /\ name_to_uri = EmptyIndex
  /\ g_els = {}
  /\ ifc_uris = <<>>
  /\ ifc_objects_dict = {}
  /\ g_links = {}
  /\ next_id = Cardinality(AllDocs)
  /\ csv = NoCsv
  /\ log = NoLog
  /\ written = <<>>
  /\ made = <<>>
  /\ norm_out = NoNorm
  /\ sub = NoSub
  /\ lookups = <<>>
  /\ fs = NoFs
  /\ walks = <<>>
  /\ collapsed = <<>>

CallCreateDirectedLink ==
  /\ pc = "builder"
  /\ Len(made) < MaxCalls
  /\ \E a \in BuilderArgs :
       LET res == create_directed_link(g_links, next_id, a.from_document_uri,
                    a.to_document_uri, a.sem_uri, a.structural_kind,
                    a.to_identifier, a.note)
       IN  /\ g_links' = res.g
           /\ next_id' = res.n
           /\ made' = Append(made, Call("direct", 0, None, res, a.from_document_uri,
                               a.to_document_uri, a.sem_uri, a.structural_kind,
                               a.to_identifier, a.note))
  /\ UNCHANGED << pc, entry, g_index, onto, name_to_uri, g_els, ifc_uris,
                  ifc_objects_dict, csv, log, written, norm_out, sub, lookups, fs, walks, collapsed >>

BuilderNext == CallCreateDirectedLink

BuilderSpec == BuilderInit /\ [][BuilderNext]_vars

-----------------------------------------------------------------------------
(* find_document_uri on its own: any index, any path *)

\* the same file registered a second time, a file and a second folder with
\* the path of the folder DocD
DocA2 == Document(5, "File", << "a",".","p","d","f" >>, txt_pdf)
DocDf == Document(6, "File", << "d" >>, None)
DocD2 == Document(7, "Folder", << "d" >>, None)

\* the number in a Document's URI is its place in the order of registration
\* (add_documents_flat mints the URI when it registers the Document)
DocPool == { DocA, DocD, DocM, DocN, DocA2, DocDf, DocD2 }

RECURSIVE Arrangements(_, _)
\* the sequences of at most k distinct members of the set S
Arrangements(S, k) ==
  IF k = 0 THEN { <<>> }
  ELSE { <<>> } \cup { << x >> \o rest : x \in S, rest \in Arrangements(S, k - 1) }

\* the index as the store holds it after g.parse: the order in which the
\* store hands out the Documents is the store's, not that of registration
Stores == { a \in Arrangements(DocPool, MaxDocs) :
              \A i \in DOMAIN a, j \in DOMAIN a : i # j => a[i] # a[j] }

\* registered paths, a part, a suffix and a prefix of one, a path written
\* with a backslash, and a path that is not registered
PathValues ==
  { << "a",".","p","d","f" >>, << "d" >>, << "n",".","i","f","c" >>,
    << "d","/","m",".","i","f","c" >>, << "d","\\","m",".","i","f","c" >>,
    << "m",".","i","f","c" >>, << "d","/" >>, << "x",".","p","d","f" >> }

ResolveInit ==
  /\ pc = "resolver"
  /\ entry = "find_document_uri"
  /\ \E docs \in Stores : g_index = [docs |-> docs, linksets |-> {}]
  /\ onto = Resource(FALSE, {})
  /\ name_to_uri = EmptyIndex
  /\ g_els = {}
  /\ ifc_uris = <<>>
  /\ ifc_objects_dict = {}
  /\ g_links = {}
  /\ next_id = Cardinality(DocPool)
  /\ csv = NoCsv
  /\ log = NoLog
  /\ written = <<>>
  /\ made = <<>>
  /\ norm_out = NoNorm
  /\ sub = NoSub
  /\ lookups = <<>>
  /\ fs = NoFs
  /\ walks = <<>>
  /\ collapsed = <<>>

\* one call of find_document_uri; it logs a warning when it finds nothing
CallFindDocumentUri ==
  /\ pc = "resolver"
  /\ Len(lookups) < MaxLookups
  /\ \E path_value \in PathValues :
       LET result == find_document_uri(g_index.docs, path_value)
       IN  /\ lookups' = Append(lookups, [path_value |-> path_value, result |-> result])
           /\ log' = [log EXCEPT !.warnings = @ + (IF result = NoneURI THEN 1 ELSE 0)]
  /\ UNCHANGED << pc, entry, g_index, onto, name_to_uri, g_els, ifc_uris,
                  ifc_objects_dict, g_links, next_id, csv, written, made,
                  norm_out, sub, fs, walks, collapsed >>

ResolveNext == CallFindDocumentUri

ResolveSpec == ResolveInit /\ [][ResolveNext]_vars

-----------------------------------------------------------------------------
(* Flat Document Enumerator: paths (os.sep is "/") *)

\* s.split(sep) for a one-character sep
RECURSIVE split(_, _)
split(s, sep) ==
  IF \A i \in 1..Len(s) : s[i] # sep THEN << s >>
  ELSE LET at == CHOOSE i \in 1..Len(s) : s[i] = sep /\ \A j \in 1..(i - 1) : s[j] # sep
       IN  << SubSeq(s, 1, at - 1) >> \o split(SubSeq(s, at + 1, Len(s)), sep)

\* sep.join(parts)
RECURSIVE str_join(_, _)
str_join(sep, parts) ==
  IF parts = <<>> THEN <<>>
  ELSE IF Len(parts) = 1 THEN parts[1]
  ELSE parts[1] \o << sep >> \o str_join(sep, Tail(parts))

\* os.path.join(path, *parts) for parts that hold no separator
RECURSIVE join(_, _)
join(path, parts) ==
  IF parts = <<>> THEN path
  ELSE IF path = <<>> \/ path[Len(path)] = "/"
  THEN join(path \o Head(parts), Tail(parts))
  ELSE join(path \o << "/" >> \o Head(parts), Tail(parts))

\* the loop of os.path.normpath over the components: new_comps after comps
RECURSIVE norm_comps(_, _, _)
norm_comps(comps, new_comps, initial_slashes) ==
  IF comps = <<>> THEN new_comps
  ELSE LET comp == Head(comps)
       IN  IF comp \in { <<>>, << "." >> }
           THEN norm_comps(Tail(comps), new_comps, initial_slashes)
           ELSE IF \/ comp # << ".", "." >>
                   \/ (initial_slashes = 0 /\ new_comps = <<>>)
                   \/ (new_comps # <<>> /\ new_comps[Len(new_comps)] = << ".", "." >>)
           THEN norm_comps(Tail(comps), Append(new_comps, comp), initial_slashes)
           ELSE IF new_comps # <<>>
           THEN norm_comps(Tail(comps), SubSeq(new_comps, 1, Len(new_comps) - 1),
                           initial_slashes)
           ELSE norm_comps(Tail(comps), new_comps, initial_slashes)

\* os.path.normpath
normpath(path) ==
  LET initial_slashes ==
        IF path = <<>> \/ path[1] # "/" THEN 0
        ELSE IF Len(path) >= 2 /\ path[2] = "/" /\ ~(Len(path) >= 3 /\ path[3] = "/")
        THEN 2 ELSE 1
      out == [i \in 1..initial_slashes |-> "/"]
               \o str_join("/", norm_comps(split(path, "/"), <<>>, initial_slashes))
  IN  IF out = <<>> THEN << "." >> ELSE out

\* variant: one pass of the loop, which drops one repetition
drop_repeated_once(parts) ==
  LET I == { i \in 1..(Len(parts) - 1) : parts[i] = parts[i + 1] }
      first == CHOOSE i \in I : \A j \in I : i <= j
  IN  IF I = {} THEN parts
      ELSE SubSeq(parts, 1, first) \o SubSeq(parts, first + 2, Len(parts))

\* the while loop of remove_repeated_segments: the first segment that
\* repeats its predecessor is deleted until no segment does
RECURSIVE drop_repeated(_)
drop_repeated(parts) ==
  LET I == { i \in 1..(Len(parts) - 1) : parts[i] = parts[i + 1] }
      first == CHOOSE i \in I : \A j \in I : i <= j
  IN  IF I = {} THEN parts
      ELSE drop_repeated(SubSeq(parts, 1, first) \o SubSeq(parts, first + 2, Len(parts)))

remove_repeated_segments(rel_path) ==
  LET parts == drop_repeated(split(normpath(rel_path), "/"))
  IN  join(Head(parts), Tail(parts))

\* variant: the extension as it is written
get_file_type_as_written(file_path) ==
  LET dots == { i \in 1..Len(file_path) : file_path[i] = "." }
      seps == { i \in 1..Len(file_path) : file_path[i] = "/" }
      dotIndex == IF dots = {} THEN 0 ELSE CHOOSE i \in dots : \A j \in dots : j <= i
      sepIndex == IF seps = {} THEN 0 ELSE CHOOSE i \in seps : \A j \in seps : j <= i
  IN  IF dotIndex > sepIndex
         /\ \E k \in (sepIndex + 1)..(dotIndex - 1) : file_path[k] # "."
      THEN SubSeq(file_path, dotIndex, Len(file_path))
      ELSE <<>>

\* os.path.splitext(file_path)[1].lower(): the text from the last dot of the
\* last segment on, unless only dots come before it in that segment
get_file_type(file_path) ==
  LET dots == { i \in 1..Len(file_path) : file_path[i] = "." }
      seps == { i \in 1..Len(file_path) : file_path[i] = "/" }
      dotIndex == IF dots = {} THEN 0 ELSE CHOOSE i \in dots : \A j \in dots : j <= i
      sepIndex == IF seps = {} THEN 0 ELSE CHOOSE i \in seps : \A j \in seps : j <= i
  IN  IF dotIndex > sepIndex
         /\ \E k \in (sepIndex + 1)..(dotIndex - 1) : file_path[k] # "."
      THEN lower(SubSeq(file_path, dotIndex, Len(file_path)))
      ELSE <<>>

-----------------------------------------------------------------------------
(* Flat Document Enumerator: the walk *)

\* a < b for Python strings, by the code points of their characters
RECURSIVE less(_, _)
less(a, b) ==
  LET ord(c) ==
        IF \E i \in 1..26 : Uppers[i] = c THEN 64 + (CHOOSE i \in 1..26 : Uppers[i] = c)
        ELSE IF \E i \in 1..26 : Lowers[i] = c
        THEN 96 + (CHOOSE i \in 1..26 : Lowers[i] = c)
        ELSE IF c = "." THEN 46 ELSE IF c = "/" THEN 47 ELSE 32
  IN  IF b = <<>> THEN FALSE
      ELSE IF a = <<>> THEN TRUE
      ELSE IF Head(a) = Head(b) THEN less(Tail(a), Tail(b))
      ELSE ord(Head(a)) < ord(Head(b))

\* variant: the names in descending order
RECURSIVE sorted_descending(_)
sorted_descending(files) ==
  IF files = {} THEN <<>>
  ELSE LET last == CHOOSE x \in files : \A y \in files \ { x } : less(y, x)
       IN  << last >> \o sorted_descending(files \ { last })

\* sorted(files)
RECURSIVE sorted(_)
sorted(files) ==
  IF files = {} THEN <<>>
  ELSE LET least == CHOOSE x \in files : \A y \in files \ { x } : less(x, y)
       IN  << least >> \o sorted(files \ { least })

\* the names that os.scandir finds in the directory root
scandir(tree, root, kind) ==
  { e.path[Len(e.path)] :
      e \in { x \in tree : /\ x.kind = kind
                           /\ Len(x.path) = Len(root) + 1
                           /\ SubSeq(x.path, 1, Len(root)) = root } }

\* os.walk(top), top down: root, its directories in the order of the
\* listing and its files, then the walk of each of the directories (todo:
\* the directories of root that are still to be walked)
RECURSIVE os_walk(_, _, _, _)
os_walk(tree, listing, root, todo) ==
  LET dirs == SelectSeq(listing, LAMBDA nm : nm \in scandir(tree, root, "Folder"))
      here == [root |-> root, dirs |-> dirs, files |-> scandir(tree, root, "File")]
  IN  IF todo = <<>>
      THEN << here >> \o (IF dirs = <<>> THEN <<>>
                          ELSE os_walk(tree, listing, root, dirs))
      ELSE os_walk(tree, listing, Append(root, Head(todo)), <<>>)
             \o (IF Tail(todo) = <<>> THEN <<>>
                 ELSE os_walk(tree, listing, root, Tail(todo)))

\* the entries that the loop of add_documents_flat registers, in its order:
\* in each pass the directory unless it is the root, then its files, sorted
RECURSIVE entries_in(_)
entries_in(steps) ==
  IF steps = <<>> THEN <<>>
  ELSE LET step == Head(steps)
           files == sorted(step.files)
       IN  (IF step.root = <<>> THEN <<>>
            ELSE << [kind |-> "Folder", path |-> step.root] >>)
             \o [i \in 1..Len(files) |->
                   [kind |-> "File", path |-> Append(step.root, files[i])]]
             \o entries_in(Tail(steps))

\* the record of the entry e, with the URI number n
document_of(e, n) ==
  Document(n, e.kind,
           replace(remove_repeated_segments(str_join("/", e.path)), "\\", << "/" >>),
           IF e.kind = "File" THEN get_file_type(str_join("/", e.path)) ELSE None)

\* add_documents_flat on the graph g (its Documents) after n minted URIs:
\* the graph and the count after it, and the entries and records of the walk
add_documents_flat(g, n, tree, listing) ==
  LET entries == entries_in(os_walk(tree, listing, <<>>, <<>>))
      records == [i \in 1..Len(entries) |-> document_of(entries[i], n + i)]
  IN  [g |-> g \o records, n |-> n + Len(entries), payload |-> tree,
       entries |-> entries, records |-> records]

-----------------------------------------------------------------------------
(* Ingestion: import_cde_backup and import_cde_backup_complete, once or     *)
(* several times on one container                                          *)

DirNames == { << "s" >>, << "t" >> }
FileNames == { << "f",".","T","X","T" >>, << "Z" >> }

\* the entries that can be copied into the tree: below the root or below
\* one of its directories, with a name that is not taken there
additions(tree) ==
  { e \in [kind : { "Folder", "File" },
           path : { Append(d, nm) : d \in { <<>> } \cup { x.path : x \in { y \in tree : y.kind = "Folder" } },
                                    nm \in DirNames \cup FileNames }] :
      /\ e \notin tree
      /\ e.kind = "Folder" <=> e.path[Len(e.path)] \in DirNames }

\* the directory trees of at most k entries
RECURSIVE Grown(_)
Grown(k) ==
  IF k = 0 THEN { {} }
  ELSE Grown(k - 1)
         \cup UNION { { tree \cup { e } : e \in additions(tree) } : tree \in Grown(k - 1) }

Trees == Grown(MaxEntries)

\* the orders in which the system can list the names of directories
Listings == { o \in [1..Cardinality(DirNames) -> DirNames] :
                \A i, j \in DOMAIN o : i # j => o[i] # o[j] }

\* a container as create_icdd leaves it: an index without Documents and an
\* empty payload directory
IngestInit ==
  /\ pc = "idle"
  /\ entry = "create_icdd"
  /\ g_index = [docs |-> <<>>, linksets |-> {}]
  /\ onto = Resource(FALSE, {})
  /\ name_to_uri = EmptyIndex
  /\ g_els = {}
  /\ ifc_uris = <<>>
  /\ ifc_objects_dict = {}
  /\ g_links = {}
  /\ next_id = 0
  /\ csv = NoCsv
  /\ log = NoLog
  /\ written = <<>>
  /\ made = <<>>
  /\ norm_out = NoNorm
  /\ sub = NoSub
  /\ lookups = <<>>
  /\ \E listing \in Listings : fs = [NoFs EXCEPT !.listing = listing]
  /\ walks = <<>>
  /\ collapsed = <<>>

\* the end of both ingestion operations: Index.rdf is parsed, the payload
\* directory is walked and Index.rdf is written
update_index(payload) ==
  LET res == add_documents_flat(g_index.docs, next_id, payload, fs.listing)
  IN  /\ g_index' = [g_index EXCEPT !.docs = res.g]
      /\ next_id' = res.n
      /\ walks' = Append(walks, [payload |-> res.payload, entries |-> res.entries,
                                 records |-> res.records])

\* import_cde_backup: without a CDE backup file it returns; the selected
\* folders and files are copied below the payload directory, the index is
\* updated, and the container is packed if the user names a file for it
import_cde_backup ==
  /\ pc = "idle"
  /\ Len(walks) < MaxWalks
  /\ entry' = "import_cde_backup"
  /\ \E chosen \in BOOLEAN, payload \in Trees, saved \in BOOLEAN :
       /\ fs.payload \subseteq payload
       /\ IF chosen
          THEN /\ update_index(payload)
               /\ fs' = [fs EXCEPT !.payload = payload,
                                   !.icdd = @ + (IF saved THEN 1 ELSE 0)]
          ELSE /\ payload = fs.payload /\ ~saved
               /\ UNCHANGED << g_index, next_id, walks, fs >>
  /\ UNCHANGED << pc, onto, name_to_uri, g_els, ifc_uris, ifc_objects_dict, g_links,
                  csv, log, written, made, norm_out, sub, lookups, collapsed >>

\* import_cde_backup_complete: the same on the container that
\* build_complete_icdd has created, without the packing
import_cde_backup_complete ==
  /\ pc = "idle"
  /\ Len(walks) < MaxWalks
  /\ entry' = "import_cde_backup_complete"
  /\ \E chosen \in BOOLEAN, payload \in Trees :
       /\ fs.payload \subseteq payload
       /\ IF chosen
          THEN /\ update_index(payload)
               /\ fs' = [fs EXCEPT !.payload = payload]
          ELSE /\ payload = fs.payload
               /\ UNCHANGED << g_index, next_id, walks, fs >>
  /\ UNCHANGED << pc, onto, name_to_uri, g_els, ifc_uris, ifc_objects_dict, g_links,
                  csv, log, written, made, norm_out, sub, lookups, collapsed >>

IngestNext ==
  \/ import_cde_backup
  \/ import_cde_backup_complete

IngestSpec == IngestInit /\ [][IngestNext]_vars

-----------------------------------------------------------------------------
(* remove_repeated_segments on its own: any relative path *)

Segments == { << "A" >>, << "B" >>, << "." >>, << ".", "." >>, <<>> }

\* the relative paths of at most MaxSegments segments, the empty path among them
RelPaths ==
  { str_join("/", segs) :
      segs \in { q \in UNION { [1..k -> Segments] : k \in 1..MaxSegments } :
                   Len(q) = 1 \/ q[1] # <<>> } }

CollapseInit ==
  /\ pc = "collapse"
  /\ entry = "remove_repeated_segments"
  /\ g_index = [docs |-> <<>>, linksets |-> {}]
  /\ onto = Resource(FALSE, {})
  /\ name_to_uri = EmptyIndex
  /\ g_els = {}
  /\ ifc_uris = <<>>
  /\ ifc_objects_dict = {}
  /\ g_links = {}
  /\ next_id = 0
  /\ csv = NoCsv
  /\ log = NoLog
  /\ written = <<>>
  /\ made = <<>>
  /\ norm_out = NoNorm
  /\ sub = NoSub
  /\ lookups = <<>>
  /\ fs = NoFs
  /\ walks = <<>>
  /\ collapsed = <<>>

\* a call of remove_repeated_segments on a path, and a call on its result
CallRemoveRepeatedSegments ==
  /\ pc = "collapse"
  /\ Len(collapsed) < 2
  /\ \E rel_path \in RelPaths \cup { collapsed[i].result : i \in DOMAIN collapsed } :
       /\ collapsed # <<>> => rel_path = collapsed[1].result
       /\ collapsed' = Append(collapsed, [rel_path |-> rel_path,
                                          result |-> remove_repeated_segments(rel_path)])
  /\ UNCHANGED << pc, entry, g_index, onto, name_to_uri, g_els, ifc_uris,
                  ifc_objects_dict, g_links, next_id, csv, log, written, made,
                  norm_out, sub, lookups, fs, walks >>

CollapseNext == CallRemoveRepeatedSegments

CollapseSpec == CollapseInit /\ [][CollapseNext]_vars

-----------------------------------------------------------------------------
(* build_complete_icdd: the container is created, the two optional imports *)
(* run on it, and the container is packed                                  *)

\* the payloads that the CDE import of a build can leave
BuildTrees == Grown(MaxBuildEntries)

\* steps 1 and 2 are done: the container directory exists with its three
\* subdirectories and an Index.rdf without Documents
BuildInit ==
  /\ pc = "step3"
  /\ entry = "build_complete_icdd"
  /\ g_index = [docs |-> <<>>, linksets |-> {}]
  /\ onto = Resource(FALSE, {})
  /\ name_to_uri = EmptyIndex
  /\ g_els = {}
  /\ ifc_uris = <<>>
  /\ ifc_objects_dict = {}
  /\ g_links = {}
  /\ next_id = 0
  /\ csv = NoCsv
  /\ log = NoLog
  /\ written = <<>>
  /\ made = <<>>
  /\ norm_out = NoNorm
  /\ sub = NoSub
  /\ lookups = <<>>
  /\ \E listing \in Listings : fs = [NoFs EXCEPT !.listing = listing]
  /\ walks = <<>>
  /\ collapsed = <<>>

\* step 3: if the user accepts, import_cde_backup_complete(container_dir);
\* without a backup file it returns, otherwise the selection is copied
\* below the payload directory and Index.rdf is updated
Step3_CdeBackup ==
  /\ pc = "step3"
  /\ \E accepted \in BOOLEAN, chosen \in BOOLEAN, payload \in BuildTrees :
       IF accepted /\ chosen
       THEN /\ update_index(payload)
            /\ fs' = [fs EXCEPT !.payload = payload]
            /\ log' = log
       ELSE /\ payload = {}
            /\ (~accepted => ~chosen)
            /\ log' = [log EXCEPT !.shown = @ + (IF accepted THEN 1 ELSE 0)]
            /\ UNCHANGED << g_index, next_id, walks, fs >>
  /\ pc' = "step4"
  /\ UNCHANGED << entry, onto, name_to_uri, g_els, ifc_uris, ifc_objects_dict, g_links,
                  csv, written, made, norm_out, sub, lookups, collapsed >>

\* step 4: if the user accepts, import_csv_links_complete(container_dir),
\* here up to the opening of the CSV file; without a CSV file it returns,
\* otherwise Index.rdf is parsed as step 3 has left it
Step4_CsvLinks ==
  /\ pc = "step4"
  /\ \E accepted \in BOOLEAN, csv_file \in BOOLEAN, objs \in SUBSET { txt_G1 } :
       IF accepted /\ csv_file
       THEN /\ entry' = "import_csv_links_complete"
            /\ ifc_uris' = find_ifc_uris(g_index.docs)
            /\ (find_ifc_uris(g_index.docs) = <<>> => objs = {})
            /\ ifc_objects_dict' = objs
            /\ csv' = [csv EXCEPT !.files = 1]
            /\ log' = log
            /\ pc' = "open"
       ELSE /\ objs = {}
            /\ (~accepted => ~csv_file)
            /\ log' = [log EXCEPT !.shown = @ + (IF accepted THEN 1 ELSE 0)]
            /\ pc' = "step5"
            /\ UNCHANGED << entry, ifc_uris, ifc_objects_dict, csv >>
  /\ UNCHANGED << g_index, onto, name_to_uri, g_els, g_links, next_id, written, made,
                  norm_out, sub, lookups, fs, walks, collapsed >>

\* shutil.rmtree(container_dir)
remove_container(f) == [f EXCEPT !.container_dir = FALSE]

\* the end of import_csv_links_complete: the user is asked for the file of
\* the updated container; without one the container directory is removed,
\* with one the container is packed and the directory is removed
RepackInImport ==
  /\ pc = "done" /\ entry = "import_csv_links_complete"
  /\ \E updated_icdd_path \in BOOLEAN :
       /\ fs' = remove_container([fs EXCEPT !.icdd = @ + (IF updated_icdd_path THEN 1 ELSE 0)])
       /\ log' = [log EXCEPT !.shown = @ + 1]
  /\ entry' = "build_complete_icdd"
  /\ pc' = "step5"
  /\ UNCHANGED << g_index, onto, name_to_uri, g_els, ifc_uris, ifc_objects_dict, g_links,
                  next_id, csv, written, made, norm_out, sub, lookups, walks, collapsed >>

\* import_csv_links_complete has returned after an error message
ReturnFromImport ==
  /\ pc = "returned" /\ entry = "import_csv_links_complete"
  /\ entry' = "build_complete_icdd"
  /\ pc' = "step5"
  /\ UNCHANGED << g_index, onto, name_to_uri, g_els, ifc_uris, ifc_objects_dict, g_links,
                  next_id, csv, log, written, made, norm_out, sub, lookups, fs, walks,
                  collapsed >>

\* step 5: the user is asked for the file of the container; without one the
\* build returns, with one shutil.make_archive packs the container
\* directory and raises FileNotFoundError if it is not there
Step5_Repack ==
  /\ pc = "step5"
  /\ \E updated_icdd_path \in BOOLEAN :
       IF ~updated_icdd_path
       THEN /\ pc' = "cancelled"
            /\ log' = [log EXCEPT !.shown = @ + 1]
            /\ fs' = fs
       ELSE IF fs.container_dir
       THEN /\ pc' = "packed"
            /\ log' = [log EXCEPT !.shown = @ + 1]
            /\ fs' = [fs EXCEPT !.icdd = @ + 1]
       ELSE /\ pc' = "raised"
            /\ UNCHANGED << log, fs >>
  /\ UNCHANGED << entry, g_index, onto, name_to_uri, g_els, ifc_uris, ifc_objects_dict,
                  g_links, next_id, csv, written, made, norm_out, sub, lookups, walks,
                  collapsed >>

BuildNext ==
  \/ Step3_CdeBackup
  \/ Step4_CsvLinks
  \/ OpenCsv
  \/ ReadRow
  \/ EndOfRows
  \/ IfcProject
  \/ Save
  \/ UpdateIndex
  \/ RepackInImport
  \/ ReturnFromImport
  \/ Step5_Repack

BuildSpec == BuildInit /\ [][BuildNext]_vars

-----------------------------------------------------------------------------
(* Reading a relationship graph *)

ShapeTags == { DirectedBinaryLink, Directed1toNLink }

types(g, x) == objects(g, x, RDF_type)

shapes(g, x) == types(g, x) \cap ShapeTags

Links(g) == subjects(g, RDF_type, LS("Link"))

\* whatever a graph presents as a link: a ls:Link, a ls:Linkset individual,
\* or the subject of an endpoint statement
LinkEntities(g) ==
  Links(g) \cup subjects(g, RDF_type, LS("Linkset"))
           \cup { t[1] : t \in { x \in g : x[2] \in { "ls:hasFromLinkElement",
                                                     "ls:hasToLinkElement" } } }

\* the ends of the link x under the property p are one LinkElement
one_link_element(g, x, p) ==
  /\ Cardinality(objects(g, x, p)) = 1
  /\ \A e \in objects(g, x, p) : LS("LinkElement") \in types(g, e)

\* the (field, value) pairs of the string identifiers on the end e
string_identifiers(g, e) ==
  { << f.name, v.name >> :
      f \in UNION { objects(g, i, "ls:identifierField") :
                      i \in { j \in objects(g, e, "ls:hasIdentifier") :
                                LS("StringBasedIdentifier") \in types(g, j) } },
      v \in UNION { objects(g, i, "ls:identifier") :
                      i \in objects(g, e, "ls:hasIdentifier") } }

ImportLoop == entry \in { "process_csv_links", "build_icdd_auto_csv" }

\* the positions of the call history that hold a call of the given roles
calls_of(roles) == { i \in DOMAIN made : made[i].role \in roles }

-----------------------------------------------------------------------------
(* Directed Link Builder *)

\* C1: every call of create_directed_link, whatever structural_kind it is
\* given (a name the builder does not know included) and whether sem_uri is a
\* concept or None, adds one ls:Link, and that Link carries exactly one of the
\* two structural types.
C1_OneLinkOneShape ==
  pc = "builder" =>
    /\ Cardinality(Links(g_links)) = Len(made)
    /\ \A i \in DOMAIN made :
         /\ made[i].link \in Links(g_links)
         /\ \A j \in DOMAIN made : made[j].link = made[i].link => j = i
         /\ Cardinality(shapes(g_links, made[i].link)) = 1

\* two calls were made, one with an unknown structural_kind and no concept
C1_Witness ==
  /\ pc = "builder"
  /\ Len(made) = 2
  /\ \E i \in DOMAIN made :
       /\ made[i].structural_kind \notin { "Directed1toN", "DirectedBinary" }
       /\ made[i].sem_uri = NoneURI
       /\ shapes(g_links, made[i].link) = { Directed1toNLink }
  /\ \E i \in DOMAIN made :
       /\ made[i].structural_kind = "DirectedBinary"
       /\ made[i].sem_uri = Elaborates
       /\ shapes(g_links, made[i].link) = { DirectedBinaryLink }

-----------------------------------------------------------------------------
(* The relationship graphs the imports write *)

\* C2: in every relationship graph that process_csv_links, build_icdd_auto_csv
\* or import_csv_links_complete writes, each link entity has a structural
\* type and, at each of its two ends, one ls:LinkElement.
C2_WrittenLinksAreShaped ==
  \A k \in DOMAIN written :
    \A x \in LinkEntities(written[k]) :
      /\ shapes(written[k], x) # {}
      /\ one_link_element(written[k], x, "ls:hasFromLinkElement")
      /\ one_link_element(written[k], x, "ls:hasToLinkElement")

-----------------------------------------------------------------------------
(* The row loop of process_csv_links and build_icdd_auto_csv *)

\* whether the type text, lower-cased and stripped of separators, is a key of
\* the alias table or of the index
matched(text) ==
  LET k == compact(lower(strip(text)))
  IN  (\E a \in ALIASES : a[1] = k) \/ k \in DOMAIN name_to_uri

\* C3: every row whose two paths resolve gets its main Link, and when the
\* type text of the row (the Type cell as the loop reads it, trimmed; the
\* empty text included) matches neither the alias table nor the index, that
\* Link has the Directed1toN type, no concept, and a comment that contains
\* the type text.
C3_UnmatchedTypeKeepsMainLink ==
  ImportLoop =>
    /\ Cardinality(calls_of({ "main" })) = csv.resolved
    /\ \A i \in calls_of({ "main" }) :
         ~matched(made[i].relation_type) =>
           /\ made[i].link \in Links(g_links)
           /\ types(g_links, made[i].link) = { LS("Link"), Directed1toNLink }
           /\ \E c \in objects(g_links, made[i].link, RDFS_comment) :
                contains(c.name, made[i].relation_type)

\* with an index at hand, one row had an unknown type text and one an empty
\* Type cell, and both got their main Link
C3_Witness ==
  /\ ImportLoop
  /\ DOMAIN name_to_uri # {}
  /\ csv.resolved = 2
  /\ \E i \in calls_of({ "main" }), j \in calls_of({ "main" }) :
       /\ made[i].relation_type = strip(txt_unknown)
       /\ made[j].relation_type = <<>>
       /\ Directed1toNLink \in types(g_links, made[i].link)
       /\ Directed1toNLink \in types(g_links, made[j].link)

\* the fromPath of the row r is the path of no registered document
from_absent(r) ==
  /\ r.fromPath # None
  /\ find_document_uri(g_index.docs, csv_path(r.fromPath)) = NoneURI

\* the lookups of the row r that find nothing; each logs its own warning
lookup_misses(r) ==
  Cardinality({ c \in { r.fromPath, r.toPath } :
                  find_document_uri(g_index.docs, csv_path(c)) = NoneURI })

C5_NoRowEndsTheLoop ==
  [][ (ImportLoop /\ pc = "rows" /\ csv'.rows = csv.rows + 1) => pc' = "rows" ]_vars

-----------------------------------------------------------------------------
(* The column check *)

\* C6 as it is stated: an import whose input tables all lack a required column
\* creates no Link, serializes no relationship graph and adds no
\* back-reference.
C6_MissingColumnsAbort ==
  (csv.rejected > 0 /\ csv.accepted = 0) =>
    /\ g_links = {}
    /\ written = <<>>
    /\ g_index.linksets = {}

\* C6: a table that lacks a required column yields no Link.  process_csv_links
\* and import_csv_links_complete report the error and return: nothing is
\* serialized and no back-reference is added.  build_icdd_auto_csv logs a
\* warning, skips the file, and still serializes the relationship graph and
\* adds the back-reference when it is done with the files.
C6_MissingColumns ==
  csv.rejected > 0 =>
    /\ csv.accepted = 0 => (g_links = {} /\ made = <<>>)
    /\ entry # "build_icdd_auto_csv" =>
         /\ pc = "returned"
         /\ log.shown = 1
         /\ csv.accepted = 0
         /\ written = <<>>
         /\ g_index.linksets = {}
    /\ entry = "build_icdd_auto_csv" =>
         /\ pc \in { "open", "rows", "save", "index", "done" }
         /\ log.warnings >= csv.rejected
         /\ log.shown = 0
         /\ pc = "done" => (Len(written) = 1 /\ Cardinality(g_index.linksets) = 1)

\* build_icdd_auto_csv found one CSV file, the file lacked a column, and the
\* empty relationship graph was serialized and back-referenced all the same
C6_Witness ==
  /\ entry = "build_icdd_auto_csv"
  /\ csv.rejected = 1
  /\ csv.accepted = 0
  /\ pc = "done"
  /\ written = << {} >>
  /\ Cardinality(g_index.linksets) = 1

-----------------------------------------------------------------------------
(* The links of a row *)

\* the Links that the row loop appended
LoopLinks == { made[i].link : i \in calls_of({ "main", "aux" }) }

\* the calls that the row numbered k caused, in their order
row_calls(k) == SelectSeq(made, LAMBDA c : c.rowno = k /\ c.role \in { "main", "aux" })

\* C7: a row whose two paths resolve appends two Links when it has a
\* non-empty identifier (the GUID cell, trimmed) and an IFC document is
\* registered, and one Link otherwise; a row that does not resolve appends
\* none.  So the Links the loop has appended number the resolved rows plus
\* the qualifying ones.
C7_LinksPerRow ==
  ImportLoop =>
    /\ LoopLinks \subseteq Links(g_links)
    /\ Cardinality(LoopLinks) = Cardinality(calls_of({ "main", "aux" }))
    /\ Cardinality(LoopLinks) = csv.resolved + csv.qualifying
    /\ pc \in { "open", "rows" } => Links(g_links) = LoopLinks
    /\ Cardinality({ k \in 1..csv.rows : row_calls(k) # <<>> }) = csv.resolved
    /\ Cardinality({ k \in 1..csv.rows : Len(row_calls(k)) = 2 }) = csv.qualifying
    /\ \A k \in 1..csv.rows :
         LET calls == row_calls(k)
         IN  /\ Len(calls) <= 2
             /\ calls # <<>> => calls[1].role = "main"
             /\ Len(calls) = 2 => calls[2].role = "aux"

\* two rows resolved, one of them qualifying: three Links
C7_Witness ==
  /\ ImportLoop
  /\ csv.rows = 2
  /\ csv.resolved = 2
  /\ csv.qualifying = 1
  /\ Cardinality(LoopLinks) = 3
  /\ Len(row_calls(1)) + Len(row_calls(2)) = 3

\* the registered IFC documents, read from the registry itself
IfcDocuments ==
  { g_index.docs[i].uri :
      i \in { j \in DOMAIN g_index.docs :
                /\ g_index.docs[j].kind = "File"
                /\ contains(g_index.docs[j].filetype, txt_ifc) } }

\* the documents at the ends of the link x under the property p
end_documents(g, x, p) ==
  UNION { objects(g, e, "ls:hasDocument") : e \in objects(g, x, p) }

\* the string identifiers at the TO ends of the link x
to_identifiers(g, x) ==
  UNION { string_identifiers(g, e) : e \in objects(g, x, "ls:hasToLinkElement") }

\* C8: the auxiliary Link of a row has one and the same registered IFC
\* document at both ends, the HasPart concept, the Directed1toN type and no
\* comment; its TO end carries one string identifier with the field GUID and
\* the identifier value of the row, the value the TO end of the row's main
\* Link carries too.
C8_AuxiliaryLink ==
  ImportLoop =>
    \A i \in calls_of({ "aux" }) :
      LET x == made[i].link
          main == row_calls(made[i].rowno)[1]
          value == main.to_identifier.value
      IN  /\ one_link_element(g_links, x, "ls:hasFromLinkElement")
          /\ one_link_element(g_links, x, "ls:hasToLinkElement")
          /\ \E d \in IfcDocuments :
               /\ end_documents(g_links, x, "ls:hasFromLinkElement") = { d }
               /\ end_documents(g_links, x, "ls:hasToLinkElement") = { d }
          /\ types(g_links, x) = { LS("Link"), Directed1toNLink, HasPart }
          /\ objects(g_links, x, RDFS_comment) = {}
          /\ value # None /\ value # <<>>
          /\ to_identifiers(g_links, x) = { << txt_GUID, value >> }
          /\ to_identifiers(g_links, main.link) = { << txt_GUID, value >> }

\* with two IFC documents registered, a row linking other documents got its
\* auxiliary Link
C8_Witness ==
  /\ ImportLoop
  /\ Cardinality(IfcDocuments) = 2
  /\ \E i \in calls_of({ "aux" }) :
       /\ row_calls(made[i].rowno)[1].from_document_uri \notin IfcDocuments
       /\ to_identifiers(g_links, made[i].link) = { << txt_GUID, txt_G1 >> }

-----------------------------------------------------------------------------
(* Shape selection *)

\* the parent concepts a graph declares for the concept c; a superclass that
\* is a blank node or a literal is no concept
parents(g, c) == { o \in objects(g, c, RDFS_subClassOf) : isURIRef(o) }

\* the concepts reached from those of S over zero or more parent edges
RECURSIVE reached(_, _)
reached(g, S) ==
  LET T == S \cup UNION { parents(g, c) : c \in S }
  IN  IF T = S THEN S ELSE reached(g, T)

ancestors(g, c) == reached(g, { c })

\* the concept that the index gives for a type text, NoneURI when it has none
concept_of(text) ==
  LET t == lower(strip(or_empty(text)))
      k == ALIASES_get(compact(t))
  IN  IF t # <<>> /\ k \in DOMAIN name_to_uri THEN name_to_uri[k] ELSE NoneURI

\* C9: normalize_csv_type_to_iso answers DirectedBinary exactly when the type
\* text resolves to a concept from which the directed-binary base is reached
\* over parent edges, and Directed1toN in every other case; it never answers
\* DirectedBinary without a concept.
C9_BinaryIffSubclassOfBase ==
  norm_out.calls > 0 =>
    /\ norm_out.sem = concept_of(norm_out.text)
    /\ norm_out.structural \in { "DirectedBinary", "Directed1toN" }
    /\ norm_out.structural = "DirectedBinary" <=>
         /\ norm_out.sem # NoneURI
         /\ DirectedBinaryLink \in ancestors(g_els, norm_out.sem)
    /\ norm_out.sem = NoneURI => norm_out.structural = "Directed1toN"

\* an alias resolved to HasPart, which is a binary link only by way of
\* Elaborates, and the answer was DirectedBinary
C9_Witness ==
  /\ pc = "normalizer"
  /\ norm_out.text = << "A","g","g","r","e","g","a","t","i","o","n" >>
  /\ norm_out.sem = HasPart
  /\ norm_out.structural = "DirectedBinary"
  /\ << HasPart, RDFS_subClassOf, DirectedBinaryLink >> \notin g_els
  /\ << HasPart, RDFS_subClassOf, Elaborates >> \in g_els
  /\ << Elaborates, RDFS_subClassOf, HasPart >> \in g_els

\* C10: on every finite graph, cycles of subClassOf included, _is_subclass_of
\* comes to an end, and its answer is true exactly when the parent is reached
\* from the child over zero or more parent edges.
C10_SubclassWalk ==
  /\ <>(sub.done)
  /\ [](sub.done => (sub.result <=> sub.parent \in ancestors(g_els, sub.child)))
  /\ [](Len(sub.stack) <= Cardinality(g_els) + 1)

\* the walk ended with true on a graph where the two concepts are subclasses
\* of each other and the base is declared for the second one only
C10_Witness ==
  /\ pc = "subclass"
  /\ sub.done /\ sub.result
  /\ sub.child = HasPart /\ sub.parent = DirectedBinaryLink
  /\ g_els = { << HasPart, RDFS_subClassOf, Elaborates >>,
               << Elaborates, RDFS_subClassOf, HasPart >>,
               << Elaborates, RDFS_subClassOf, DirectedBinaryLink >> }

-----------------------------------------------------------------------------
(* The Relation Normalizer as a function *)

\* the type text is empty once trimmed
blank(text) == strip(or_empty(text)) = <<>>

\* C11 as it is stated: on the same index and graph, a second call with a
\* text of the same compact key (the same text included) gives the same
\* concept and the same shape as the first call.
C11_SameKeySameResult ==
  [][ (norm_out.calls = 1 /\ norm_out'.calls = 2
       /\ compact_key(norm_out'.text) = compact_key(norm_out.text)) =>
        /\ norm_out'.sem = norm_out.sem
        /\ norm_out'.structural = norm_out.structural ]_vars

\* C11: on the same index and graph, a second call gives the same concept and
\* the same shape as the first when the two texts have the same compact key
\* and are both empty or both non-empty once trimmed; so does a repeated call.
C11_SameKeySameResultNonBlank ==
  [][ (norm_out.calls = 1 /\ norm_out'.calls = 2
       /\ compact_key(norm_out'.text) = compact_key(norm_out.text)
       /\ (blank(norm_out'.text) <=> blank(norm_out.text))) =>
        /\ norm_out'.sem = norm_out.sem
        /\ norm_out'.structural = norm_out.structural ]_vars

\* a spelling of an alias with separators and capitals was normalized in a
\* second call, after a text of the same compact key, and the answer was
\* HasPart with the shape of a subclass of the binary base
C11_Witness ==
  /\ pc = "normalizer"
  /\ norm_out.calls = 2
  /\ norm_out.text = << "a","g","g","-","r","e","g","_","a","t","i","o","n"," " >>
  /\ norm_out.sem = HasPart
  /\ norm_out.structural = "DirectedBinary"

-----------------------------------------------------------------------------
(* Document Index: resolving a path *)

\* the path find_document_uri compares with: backslashes made slashes
normalized(path_value) == replace(path_value, "\\", << "/" >>)

\* the registered Documents of the kind whose path is exactly the normalized input
with_path(kind, path_value) ==
  { i \in DOMAIN g_index.docs :
      /\ g_index.docs[i].kind = kind
      /\ g_index.docs[i].path = normalized(path_value) }

uris(I) == { g_index.docs[i].uri : i \in I }

\* C13: find_document_uri returns a File Document whose path equals the
\* normalized input whenever there is one, a Folder Document of that path
\* only when no File has it, and nothing otherwise; a Document of whose path
\* the input is only a part is never returned.  A miss is logged.
C13_ExactFileThenFolder ==
  pc = "resolver" =>
    /\ \A k \in DOMAIN lookups :
         LET files == with_path("File", lookups[k].path_value)
             folders == with_path("Folder", lookups[k].path_value)
         IN  /\ files # {} => lookups[k].result \in uris(files)
             /\ (files = {} /\ folders # {}) => lookups[k].result \in uris(folders)
             /\ (files = {} /\ folders = {}) => lookups[k].result = NoneURI
             /\ lookups[k].result \in uris(files \cup folders) \cup { NoneURI }
    /\ log.warnings = Cardinality({ k \in DOMAIN lookups : lookups[k].result = NoneURI })

\* a path registered for a file and for a folder gave the file, and a path
\* that is only the end of a registered path gave nothing
C13_Witness ==
  /\ pc = "resolver"
  /\ g_index.docs = << DocD, DocDf, DocM >>
  /\ Len(lookups) = 2
  /\ lookups[1].path_value = << "d" >> /\ lookups[1].result = DocDf.uri
  /\ lookups[2].path_value = << "m",".","i","f","c" >> /\ lookups[2].result = NoneURI

\* among the Documents at the places I, the one that was registered first
first_registered(I) ==
  g_index.docs[CHOOSE i \in I : \A j \in I : g_index.docs[i].uri.n <= g_index.docs[j].uri.n].uri

\* C14: when several Documents have the path, find_document_uri returns the
\* one of them that was registered first, and it returns the same Document
\* on every call with that path.
C14_FirstRegisteredWins ==
  pc = "resolver" =>
    /\ \A k \in DOMAIN lookups :
         LET files == with_path("File", lookups[k].path_value)
             folders == with_path("Folder", lookups[k].path_value)
         IN  /\ files # {} => lookups[k].result = first_registered(files)
             /\ (files = {} /\ folders # {}) => lookups[k].result = first_registered(folders)
    /\ \A k \in DOMAIN lookups, l \in DOMAIN lookups :
         normalized(lookups[k].path_value) = normalized(lookups[l].path_value) =>
           lookups[k].result = lookups[l].result

-----------------------------------------------------------------------------
(* Directed Link Builder: ends and identifiers *)

from_ends(g, x) == objects(g, x, "ls:hasFromLinkElement")

to_ends(g, x) == objects(g, x, "ls:hasToLinkElement")

identifiers(g, e) == objects(g, e, "ls:hasIdentifier")

IdentifierTypes ==
  { LS("StringBasedIdentifier"), LS("URIBasedIdentifier"), LS("QueryBasedIdentifier") }

\* whatever a graph presents as an identifier
IdentifierEntities(g) ==
  { t[1] : t \in { x \in g : x[2] = RDF_type /\ x[3] \in IdentifierTypes } }
    \cup { t[3] : t \in { x \in g : x[2] = "ls:hasIdentifier" } }

\* C15: no FROM end of a link that create_directed_link built has an
\* identifier, also when both ends wrap the same document; whatever has an
\* identifier is the TO end of a link and the FROM end of none; and the
\* identifier of a call that passes one sits on the TO end of its link.
C15_IdentifierOnToEndOnly ==
  pc = "builder" =>
    /\ \A i \in DOMAIN made :
         /\ \A e \in from_ends(g_links, made[i].link) : identifiers(g_links, e) = {}
         /\ made[i].to_identifier = StringIdentifier(txt_G1) =>
              to_identifiers(g_links, made[i].link) = { << txt_GUID, txt_G1 >> }
    /\ \A t \in g_links :
         t[2] = "ls:hasIdentifier" =>
           /\ \E x \in Links(g_links) : t[1] \in to_ends(g_links, x)
           /\ \A x \in Links(g_links) : t[1] \notin from_ends(g_links, x)

\* a link from a document to itself was built with an identifier: its TO end
\* has it, its FROM end has none
C15_Witness ==
  /\ pc = "builder"
  /\ \E i \in DOMAIN made :
       /\ made[i].from_document_uri = made[i].to_document_uri
       /\ made[i].to_identifier = StringIdentifier(txt_G1)
       /\ \E e \in to_ends(g_links, made[i].link) : identifiers(g_links, e) # {}
       /\ \E e \in from_ends(g_links, made[i].link) : identifiers(g_links, e) = {}

\* a payload key that is missing or empty
lacking(x) == x = None \/ x = <<>>

\* the payload has what the contract requires of its kind: field name and
\* value, the identifier string, or the expression
complete_as_stated(id) ==
  LET kind == lower(or_empty(id.kind))
  IN  \/ kind = txt_string /\ ~lacking(id.field) /\ ~lacking(id.value)
      \/ kind = txt_uri /\ ~lacking(id.uri)
      \/ kind = txt_query /\ ~lacking(id.expression)

\* the payload has what the builder tests of its kind: the value, the
\* identifier string, or the expression
complete_as_tested(id) ==
  LET kind == lower(or_empty(id.kind))
  IN  \/ kind = txt_string /\ ~lacking(id.value)
      \/ kind = txt_uri /\ ~lacking(id.uri)
      \/ kind = txt_query /\ ~lacking(id.expression)

\* the link of the call has its Link type, one shape and its two ends
link_stands(c) ==
  /\ c.link \in Links(g_links)
  /\ Cardinality(shapes(g_links, c.link)) = 1
  /\ one_link_element(g_links, c.link, "ls:hasFromLinkElement")
  /\ one_link_element(g_links, c.link, "ls:hasToLinkElement")

\* the ends of the link of the call have no identifier
no_identifier(c) ==
  \A e \in from_ends(g_links, c.link) \cup to_ends(g_links, c.link) :
    identifiers(g_links, e) = {}

\* C16 as it is stated: a call whose identifier payload lacks the field name
\* or the value (string-keyed), the identifier string (URI-based) or the
\* expression (query-based), or names no supported kind, leaves no identifier
\* in the graph, and its Link stands with its shape and its two ends.
C16_IncompleteIdentifierOmitted ==
  pc = "builder" =>
    /\ \A i \in DOMAIN made :
         /\ link_stands(made[i])
         /\ ~complete_as_stated(made[i].to_identifier) => no_identifier(made[i])
    /\ Cardinality(IdentifierEntities(g_links)) =
         Cardinality({ i \in DOMAIN made : complete_as_stated(made[i].to_identifier) })

\* C16: a call whose identifier payload lacks the value (string-keyed; a
\* missing field name is replaced by GUID), the identifier string (URI-based)
\* or the expression (query-based), or names no supported kind, leaves no
\* identifier in the graph, and its Link stands with its shape and its two ends.
C16_UntestedIdentifierOmitted ==
  pc = "builder" =>
    /\ \A i \in DOMAIN made :
         /\ link_stands(made[i])
         /\ ~complete_as_tested(made[i].to_identifier) => no_identifier(made[i])
         /\ (made[i].to_identifier.kind = txt_string /\ made[i].to_identifier.field = None
             /\ ~lacking(made[i].to_identifier.value)) =>
              to_identifiers(g_links, made[i].link) =
                { << txt_GUID, made[i].to_identifier.value >> }
    /\ Cardinality(IdentifierEntities(g_links)) =
         Cardinality({ i \in DOMAIN made : complete_as_tested(made[i].to_identifier) })

\* a string-keyed payload without a value and a payload of an unknown kind
\* were passed: two Links stand and the graph holds no identifier
C16_Witness ==
  /\ pc = "builder"
  /\ Len(made) = 2
  /\ made[1].to_identifier = Identifier(txt_string, None, txt_GUID, None, None, None)
  /\ made[2].to_identifier = Identifier(txt_guid_kind, txt_G1, txt_GUID, None, None, None)
  /\ link_stands(made[1]) /\ link_stands(made[2])
  /\ IdentifierEntities(g_links) = {}

ends(g, x) == from_ends(g, x) \cup to_ends(g, x)

LinkElements(g) == subjects(g, RDF_type, LS("LinkElement"))

\* C17: every Link built has one FROM LinkElement, which wraps the
\* from-document of the call, and one TO LinkElement, which wraps its
\* to-document; the two are different entities, also when the two documents
\* are the same; and every LinkElement of the graph is an end of exactly one
\* Link.
C17_TwoEndsOfOneLink ==
  pc = "builder" =>
    /\ \A i \in DOMAIN made :
         LET x == made[i].link
         IN  /\ one_link_element(g_links, x, "ls:hasFromLinkElement")
             /\ one_link_element(g_links, x, "ls:hasToLinkElement")
             /\ end_documents(g_links, x, "ls:hasFromLinkElement") = { made[i].from_document_uri }
             /\ end_documents(g_links, x, "ls:hasToLinkElement") = { made[i].to_document_uri }
             /\ from_ends(g_links, x) \cap to_ends(g_links, x) = {}
    /\ \A e \in LinkElements(g_links) :
         Cardinality({ x \in Links(g_links) : e \in ends(g_links, x) }) = 1
    /\ Cardinality(LinkElements(g_links)) = 2 * Len(made)

\* two links were built, one of them from a document to itself, and the
\* graph holds four LinkElements
C17_Witness ==
  /\ pc = "builder"
  /\ Len(made) = 2
  /\ made[1].from_document_uri = made[1].to_document_uri
  /\ made[2].from_document_uri # made[2].to_document_uri
  /\ Cardinality(LinkElements(g_links)) = 4
  /\ from_ends(g_links, made[1].link) # to_ends(g_links, made[1].link)

\* the two calls were given the same arguments
same_arguments(c, d) ==
  /\ c.from_document_uri = d.from_document_uri
  /\ c.to_document_uri = d.to_document_uri
  /\ c.sem_uri = d.sem_uri
  /\ c.structural_kind = d.structural_kind
  /\ c.to_identifier = d.to_identifier
  /\ c.note = d.note

\* what the entity x says of itself, but for the entities it points to
statements(g, x) == { << t[2], t[3] >> : t \in { u \in g : u[1] = x } }

\* the identifiers on the ends E, by their statements
identifier_statements(g, E) ==
  { statements(g, i) : i \in UNION { identifiers(g, e) : e \in E } }

\* the links x and y differ in nothing but the URIs minted for them
alike(g, x, y) ==
  /\ types(g, x) = types(g, y)
  /\ objects(g, x, RDFS_comment) = objects(g, y, RDFS_comment)
  /\ Cardinality(from_ends(g, x)) = Cardinality(from_ends(g, y))
  /\ Cardinality(to_ends(g, x)) = Cardinality(to_ends(g, y))
  /\ end_documents(g, x, "ls:hasFromLinkElement") = end_documents(g, y, "ls:hasFromLinkElement")
  /\ end_documents(g, x, "ls:hasToLinkElement") = end_documents(g, y, "ls:hasToLinkElement")
  /\ identifier_statements(g, from_ends(g, x)) = identifier_statements(g, from_ends(g, y))
  /\ identifier_statements(g, to_ends(g, x)) = identifier_statements(g, to_ends(g, y))
  /\ Cardinality(UNION { identifiers(g, e) : e \in ends(g, x) }) =
       Cardinality(UNION { identifiers(g, e) : e \in ends(g, y) })

\* C18: a call of create_directed_link keeps every statement of the graph,
\* says something only of entities the graph did not know, and adds exactly
\* one Link; and when an earlier call had the same arguments, the Link of
\* the new call is another Link with other LinkElements and other
\* identifiers, and is like the earlier one in everything else.
C18_SameArgumentsNewLink ==
  [][ (pc = "builder" /\ Len(made') = Len(made) + 1) =>
        LET c == made'[Len(made')]
        IN  /\ g_links \subseteq g_links'
            /\ \A t \in g_links' \ g_links : t[1] \notin { u[1] : u \in g_links }
            /\ Cardinality(Links(g_links')) = Cardinality(Links(g_links)) + 1
            /\ \A i \in DOMAIN made :
                 same_arguments(made[i], c) =>
                   /\ c.link # made[i].link
                   /\ c.link \in Links(g_links') /\ made[i].link \in Links(g_links')
                   /\ ends(g_links', c.link) \cap ends(g_links', made[i].link) = {}
                   /\ UNION { identifiers(g_links', e) : e \in ends(g_links', c.link) }
                        \cap UNION { identifiers(g_links', e) : e \in ends(g_links', made[i].link) } = {}
                   /\ alike(g_links', c.link, made[i].link) ]_vars

\* the same call, with a concept, an identifier and a note, was made twice:
\* the graph holds two Links, four LinkElements and two identifiers
C18_Witness ==
  /\ pc = "builder"
  /\ Len(made) = 2
  /\ same_arguments(made[1], made[2])
  /\ made[1].sem_uri = Elaborates
  /\ made[1].to_identifier = StringIdentifier(txt_G1)
  /\ made[1].note # None
  /\ made[1].link # made[2].link
  /\ Cardinality(Links(g_links)) = 2
  /\ Cardinality(LinkElements(g_links)) = 4
  /\ Cardinality(IdentifierEntities(g_links)) = 2

-----------------------------------------------------------------------------
(* The end of an import *)

\* an import took place: a CSV file was opened (build_icdd_auto_csv skips the
\* import when the backup holds no CSV file)
imported == csv.accepted + csv.rejected > 0

\* C19: an import that runs to its end serializes the relationship graph
\* once, when no row is left to read and with every Link that was made, and
\* records one back-reference, after the serialization; as long as the
\* import runs, and when it returns or raises before the serialization,
\* nothing is serialized and no back-reference is recorded.
C19_OneSerializationOneBackReference ==
  entry \in EntryPoints =>
    /\ Len(written) <= 1
    /\ Cardinality(g_index.linksets) <= Len(written)
    /\ Len(written) = 1 <=> (imported /\ pc \in { "index", "done" })
    /\ Cardinality(g_index.linksets) = 1 <=> (imported /\ pc = "done")
    /\ pc \in { "returned", "raised" } => (written = <<>> /\ g_index.linksets = {})
    /\ Len(written) = 1 =>
         /\ written[1] = g_links
         /\ \A i \in DOMAIN made : \E t \in written[1] : t[1] = made[i].link

\* an import read its two rows, made three Links and ended: one graph with
\* the three Links is serialized and one back-reference is recorded
C19_Witness ==
  /\ ImportLoop
  /\ pc = "done"
  /\ csv.rows = 2
  /\ Len(made) = 3
  /\ Len(written) = 1
  /\ Cardinality(Links(written[1])) = 3
  /\ Cardinality(g_index.linksets) = 1

-----------------------------------------------------------------------------
(* The order of the steps of an import *)

\* the Semantic Index is one that build_iso_semantics_index returns
index_built ==
  [name_to_uri |-> name_to_uri, g_els |-> g_els] \in build_iso_semantics_index(onto)

\* C20: no row is read and no Link is made before the Document Index is
\* loaded; from then on the Document Index is complete and keeps its
\* Documents, and in process_csv_links and build_icdd_auto_csv the Semantic
\* Index is built and stays as it is; every main Link of a row has ends that
\* were resolved in that Document Index and the concept and shape that
\* normalize_csv_type_to_iso gives on that Semantic Index.
C20_IndexesBeforeRows ==
  [][ (entry \in EntryPoints =>
        /\ pc = "start" => (g_index.docs = <<>> /\ csv.rows = 0 /\ made = <<>>)
        /\ pc # "start" =>
             /\ g_index.docs \in Registries
             /\ g_index'.docs = g_index.docs
             /\ name_to_uri' = name_to_uri /\ g_els' = g_els
             /\ (ImportLoop /\ imported) => index_built
        /\ csv'.rows # csv.rows => pc = "rows"
        /\ \A i \in DOMAIN made' \ DOMAIN made :
             /\ pc \notin { "start", "open" }
             /\ made'[i].role = "main" =>
                  /\ \E d \in DOMAIN g_index.docs :
                       g_index.docs[d].uri = made'[i].from_document_uri
                  /\ \E d \in DOMAIN g_index.docs :
                       g_index.docs[d].uri = made'[i].to_document_uri
                  /\ ImportLoop =>
                       LET norm == normalize_csv_type_to_iso(made'[i].relation_type,
                                                             name_to_uri, g_els)
                       IN  /\ made'[i].sem_uri = norm.sem
                           /\ made'[i].structural_kind = norm.structural) ]_vars

\* with the three Documents loaded and the ontology indexed, two rows were
\* read, and one of them got a Link of the concept Elaborates
C20_Witness ==
  /\ ImportLoop
  /\ g_index.docs = << DocN, DocA, DocM >>
  /\ DOMAIN name_to_uri # {}
  /\ csv.rows = 2
  /\ \E i \in calls_of({ "main" }) :
       /\ made[i].sem_uri = Elaborates
       /\ made[i].structural_kind = "DirectedBinary"
       /\ made[i].from_document_uri = DocA.uri
       /\ made[i].to_document_uri = DocM.uri

-----------------------------------------------------------------------------
(* C21: the import reads the Document Index and writes the relationship graph *)

\* the URIs of the Documents of the index
DocumentURIs == { g_index.docs[i].uri : i \in DOMAIN g_index.docs }

\* C21: from the opening of the CSV file to the serialization of the
\* relationship graph no step changes the index; whatever a step adds to the
\* relationship graph is a statement about a Link, a LinkElement or an
\* identifier, never about a Document; and the one step that changes the
\* index keeps every Document record and adds one statement, the
\* back-reference to the file that was written.
C21_RowsLeaveIndex ==
  [][ (/\ pc \in { "open", "rows", "ifc_project", "save" } => g_index' = g_index
       /\ \A t \in g_links' \ g_links : t[1] \notin DocumentURIs
       /\ pc = "index" =>
            /\ g_index'.docs = g_index.docs
            /\ g_index.linksets \subseteq g_index'.linksets
            /\ g_index'.linksets \ g_index.linksets
                 = { generate_uri("LinksetRelations_", next_id) }) ]_vars

\* an import of two resolved rows that made Links between registered
\* Documents is over, and the index has its back-reference
C21_Witness ==
  /\ pc = "done"
  /\ csv.resolved = 2
  /\ made # <<>>
  /\ g_index.docs = << DocN, DocA, DocM >>
  /\ Cardinality(g_index.linksets) = 1

-----------------------------------------------------------------------------
(* C25: remove_repeated_segments is idempotent *)

txt_AB == << "A","/","B" >>
txt_AAAB == << "A","/","A","/","A","/","B" >>

\* whether two adjacent segments of the path are equal
repeats(path) ==
  \E k \in 1..(Len(split(path, "/")) - 1) : split(path, "/")[k] = split(path, "/")[k + 1]

\* C25: the result of remove_repeated_segments has no two adjacent equal
\* segments; the call on a result returns it unchanged; "A/B" is returned
\* unchanged and "A/A/A/B" gives "A/B".
C25_CollapseIdempotent ==
  /\ \A i \in DOMAIN collapsed :
       /\ ~repeats(collapsed[i].result)
       /\ collapsed[i].rel_path = txt_AB => collapsed[i].result = txt_AB
       /\ collapsed[i].rel_path = txt_AAAB => collapsed[i].result = txt_AB
  /\ Len(collapsed) = 2 =>
       /\ collapsed[2].rel_path = collapsed[1].result
       /\ collapsed[2].result = collapsed[2].rel_path

\* "A/A/A/B" was collapsed to "A/B", and "A/B" again to itself
C25_Witness ==
  /\ Len(collapsed) = 2
  /\ collapsed[1].rel_path = txt_AAAB
  /\ collapsed[1].result = txt_AB
  /\ collapsed[2].result = txt_AB

-----------------------------------------------------------------------------
(* C22: one Document per filesystem entry after any ingestions *)

\* C22: when ingestion operations have run, the index holds as many
\* Documents as the payload directory holds entries, and it holds the records
\* of every walk as that walk made them.
C22_OneDocumentPerEntry ==
  walks # <<>> =>
    /\ Len(g_index.docs) = Cardinality(fs.payload)
    /\ \A k \in DOMAIN walks : \A i \in DOMAIN walks[k].records :
         \E d \in DOMAIN g_index.docs : g_index.docs[d] = walks[k].records[i]

-----------------------------------------------------------------------------
(* C23: what one walk of add_documents_flat emits *)

\* the segments of a path without those that repeat their predecessor
RECURSIVE without_repeats(_)
without_repeats(path) ==
  IF Len(path) <= 1 THEN path
  ELSE IF path[1] = path[2] THEN without_repeats(Tail(path))
  ELSE << path[1] >> \o without_repeats(Tail(path))

\* the lower-cased extension of a file name
extension(name) ==
  IF \A i \in DOMAIN name : name[i] # "." THEN <<>>
  ELSE lower(SubSeq(name, CHOOSE i \in DOMAIN name :
                            name[i] = "." /\ \A j \in (i + 1)..Len(name) : name[j] # ".",
                    Len(name)))

\* C23: every walk registers each entry of the tree once and nothing else
\* (the root is no entry), under a URI of its own; the record of an entry has
\* its kind and its path from the root, written with "/" and without the
\* segments that repeat their predecessor; the record of a file has the
\* lower-cased extension of the file's name.
C23_OneRecordPerEntry ==
  \A k \in DOMAIN walks :
    /\ Len(walks[k].records) = Cardinality(walks[k].payload)
    /\ { walks[k].entries[i] : i \in DOMAIN walks[k].entries } = walks[k].payload
    /\ \A i, j \in DOMAIN walks[k].records :
         i # j => walks[k].records[i].uri # walks[k].records[j].uri
    /\ \A i \in DOMAIN walks[k].records :
         /\ walks[k].entries[i].path # <<>>
         /\ walks[k].records[i].kind = walks[k].entries[i].kind
         /\ walks[k].records[i].path
              = str_join("/", without_repeats(walks[k].entries[i].path))
         /\ walks[k].entries[i].kind = "File" =>
              walks[k].records[i].filetype
                = extension(walks[k].entries[i].path[Len(walks[k].entries[i].path)])

\* the file s/s/f.TXT was registered with the path "s/f.TXT" and the
\* extension ".txt", next to the Folders s and s/s
C23_Witness ==
  \E k \in DOMAIN walks :
    /\ walks[k].payload = { [kind |-> "Folder", path |-> << << "s" >> >>],
                            [kind |-> "Folder", path |-> << << "s" >>, << "s" >> >>],
                            [kind |-> "File",
                             path |-> << << "s" >>, << "s" >>, << "f",".","T","X","T" >> >>] }
    /\ \E i \in DOMAIN walks[k].records :
         /\ walks[k].records[i].kind = "File"
         /\ walks[k].records[i].path = << "s","/","f",".","T","X","T" >>
         /\ walks[k].records[i].filetype = << ".","t","x","t" >>

-----------------------------------------------------------------------------
(* C24: the order of the records of a walk *)

\* the directory of an entry
parent(e) == SubSeq(e.path, 1, Len(e.path) - 1)

\* the kinds and paths of the records of a walk, in their order
emitted(w) == [i \in DOMAIN w.records |-> << w.records[i].kind, w.records[i].path >>]

-----------------------------------------------------------------------------
(* C29: the paths of the records of a first walk *)

\* C29: in the walk into an index without Documents no two records of the
\* same kind have the same path.
C29_DistinctPaths ==
  walks # <<>> =>
    \A i, j \in DOMAIN walks[1].records :
      (i # j /\ walks[1].records[i].kind = walks[1].records[j].kind)
        => walks[1].records[i].path # walks[1].records[j].path

-----------------------------------------------------------------------------
(* C26: the keys of the name index *)

\* the classes that the ontology resource declares in the ExtendedLinkset namespace
declared == { c \in subjects(onto.g, RDF_type, OWL_Class) : c.ns = "els" }

\* the keys that build_iso_semantics_index registers for the class c
keys_of(c) ==
  { lower(c.name) }
    \cup ({ lower(strip(lab.name)) : lab \in objects(onto.g, c, RDFS_label) } \ { <<>> })

\* C26 as stated: every key of a declared class of the namespace is in the
\* index and maps to that class, and every key maps to a class of the
\* namespace.
C26_KeysMapToTheirClass ==
  (entry = "normalize_csv_type_to_iso" /\ onto.parsable) =>
    /\ \A c \in declared : \A k \in keys_of(c) :
         k \in DOMAIN name_to_uri /\ name_to_uri[k] = c
    /\ \A k \in DOMAIN name_to_uri : name_to_uri[k].ns = "els"

\* C26 as the code has it: every key of a declared class of the namespace is
\* in the index; every key of the index is a key of the class it maps to,
\* which is a declared class of the namespace; a key that only one class has
\* maps to that class, and a key that several classes have maps to one of them.
\* (Read where the index has been built and no text has been looked up yet;
\* no call changes the index.)
C26_KeysMapToAClassOfTheirs ==
  (entry = "normalize_csv_type_to_iso" /\ onto.parsable /\ norm_out.calls = 0) =>
    /\ \A c \in declared : keys_of(c) \subseteq DOMAIN name_to_uri
    /\ \A k \in DOMAIN name_to_uri :
         /\ name_to_uri[k] \in declared
         /\ k \in keys_of(name_to_uri[k])
         /\ \A c \in declared :
              (k \in keys_of(c) /\ \A d \in declared \ { c } : k \notin keys_of(d))
                => name_to_uri[k] = c

\* Elaborates carries the labels " Has-Part " and "HASPART"; both are keys,
\* "has-part" maps to Elaborates, and "haspart", which is the local name of
\* HasPart as well, maps to HasPart
C26_Witness ==
  /\ entry = "normalize_csv_type_to_iso" /\ onto.parsable
  /\ LabelCands \subseteq onto.g
  /\ name_to_uri[<< "h","a","s","-","p","a","r","t" >>] = Elaborates
  /\ name_to_uri[<< "h","a","s","p","a","r","t" >>] = HasPart
  /\ name_to_uri[<< "e","l","a","b","o","r","a","t","e","s" >>] = Elaborates

-----------------------------------------------------------------------------
(* C27: the anchor of the auxiliary links *)

\* the IFC Document that the scan of the index meets first
first_ifc ==
  g_index.docs[CHOOSE i \in DOMAIN g_index.docs :
                 /\ g_index.docs[i].uri \in IfcDocuments
                 /\ \A j \in 1..(i - 1) : g_index.docs[j].uri \notin IfcDocuments].uri

\* C27: every auxiliary HasPart Link of an import has the IFC Document that
\* the scan of the index meets first at both ends, whatever Documents the
\* row's own Link joins.
C27_AuxOnFirstIfc ==
  ImportLoop =>
    \A i \in calls_of({ "aux" }) :
      /\ made[i].from_document_uri = first_ifc
      /\ made[i].to_document_uri = first_ifc
      /\ end_documents(g_links, made[i].link, "ls:hasFromLinkElement") = { first_ifc }
      /\ end_documents(g_links, made[i].link, "ls:hasToLinkElement") = { first_ifc }
      /\ \A j \in calls_of({ "aux" }) :
           made[j].from_document_uri = made[i].from_document_uri

\* with the IFC documents DocN and DocM registered in this order, two rows
\* that link DocA to DocM got their auxiliary Links, both on DocN
C27_Witness ==
  /\ ImportLoop
  /\ g_index.docs = << DocN, DocA, DocM >>
  /\ Cardinality(calls_of({ "aux" })) = 2
  /\ \A i \in calls_of({ "main" }) :
       made[i].from_document_uri = DocA.uri /\ made[i].to_document_uri = DocM.uri
  /\ \A i \in calls_of({ "aux" }) : made[i].to_document_uri = DocN.uri

-----------------------------------------------------------------------------
(* C28: the keys of the name index as relation type texts *)

\* C28: a type text that is a key of the name index resolves to the concept
\* that the index holds under that key.
C28_KeysResolve ==
  (norm_out.calls > 0 /\ norm_out.text \in DOMAIN name_to_uri)
    => norm_out.sem = name_to_uri[norm_out.text]

-----------------------------------------------------------------------------
(* C30 *)

\* C30: in build_complete_icdd, whichever of the two optional imports the
\* user accepts and however they end, the container directory created in
\* step 1 exists with its Index.rdf when the repack of step 5 runs.
C30_ContainerAtRepack ==
  pc = "step5" => fs.container_dir

=============================================================================
